---- MODULE Spec2Model ----
(***************************************************************************)
(* Model of the market-making agent (trading/core/trader.py, class Trader) *)
(* running against an exchange.                                            *)
(*                                                                         *)
(* Numbers.  The program computes in binary floating point; the model uses *)
(* fixed point integers:                                                   *)
(*   prices  in units of 0.0001 dollar  (1 cent = Cent units),             *)
(*   sizes   in units of 0.001 share    (1 share = Share units),           *)
(*   money   in units of price x size   (1 dollar = Cent*100*Share units). *)
(* A float division a / b is modelled by the integer quotient a \div b.    *)
(* Optional[float] fields that the program only ever tests by truthiness   *)
(* or that are set together with an order id are modelled with 0 for None; *)
(* the cost basis, which is tested with "is None", is <<>> or <<c>>.       *)
(*                                                                         *)
(* One step of the agent is cut at its awaits: an action below is a method *)
(* of the step with the exchange calls it awaits and their outcomes.  The  *)
(* two calls of _check_order_status, of _check_and_cancel_invalid_orders   *)
(* and of _replace_order (cancel, then submit) are taken together: a fill   *)
(* between the two calls of a pair has the effect of the same fill just    *)
(* before or just after the pair.  Exchange-side fills of the agent's      *)
(* orders interleave between the actions.                                  *)
(***************************************************************************)
EXTENDS Integers, Sequences, FiniteSets, TLC

\* ------------------------------------------------------------------ units
Cent == 100
Share == 1000
Dollar == Cent * 100 * Share

\* ------------------------------------------------------ program constants
PRICE_UPDATE_THRESHOLD == 1
MIN_ORDER_SIZE == 5000
POSITION_SYNC_INTERVAL == 5
SAFETY_BUFFER == 100
POSITION_EPS == 10
SOLE_EPS == 10
PRICE_TICK == 100
SIZE_TICK == 10

\* ------------------------------------------------------------ model bounds
\* The exchange accepts at most MaxOrders orders of the agent in one run, the
\* agent runs at most MaxSteps steps, and at most MaxFaults exchange calls
\* fail (raise, or return without effect) in one run.
MaxOrders == 2
MaxSteps == 3
MaxFaults == 1

\* ---------------------------------------------------------------- helpers
Abs(x) == IF x < 0 THEN -x ELSE x
Max(a, b) == IF a >= b THEN a ELSE b
MaxOf(S) == CHOOSE x \in S : \A y \in S : y <= x
MinOf(S) == CHOOSE x \in S : \A y \in S : x <= y
NoneV == <<>>
Some(x) == <<x>>

\* Python round(): to the nearest multiple of m, ties to the even multiple.
RoundHalfEven(x, m) ==
  LET q == x \div m
      r == x % m
  IN  IF 2 * r < m THEN q * m
      ELSE IF 2 * r > m THEN (q + 1) * m
      ELSE IF q % 2 = 0 THEN q * m ELSE (q + 1) * m

\* PolymarketService._round_price / _round_size
RoundPrice(price) == RoundHalfEven(price, PRICE_TICK)
RoundSize(size) == RoundHalfEven(size, SIZE_TICK)

\* --------------------------------------------------------------- variables
VARIABLES
  config,                 \* TraderConfig: budget, min_gap, price_improvement
  state,                  \* TraderState
  avg_cost_basis,         \* Trader._avg_cost_basis
  position_synced,        \* Trader._position_synced
  position_sync_counter,  \* Trader._position_sync_counter
  pc,                     \* where the running step is
  book,                   \* the step's locals: best/second-best prices, sizes
  exPosition,             \* exchange: ground-truth inventory of the agent
  exOrders,               \* exchange: the agent's orders, indexed by order id
  market,                 \* exchange: the other participants' resting orders
  subs,                   \* history: submit_limit calls of the running step
  applied,                \* history: per order id, FILLED statuses applied
  atStart,                \* history: what was tracked when the step began,
                          \* and (reconciliation alone) the store's answer
  steps,                  \* number of steps started
  faults,                 \* number of exchange calls that failed
  retry,                  \* PolymarketService._retry_operation: one call
  mgr                     \* TraderManager: roster, run loop, the store

vars == <<config, state, avg_cost_basis, position_synced, position_sync_counter,
          pc, book, exPosition, exOrders, market, subs, applied, atStart,
          steps, faults, retry, mgr>>

agentVars == <<state, avg_cost_basis, position_synced, position_sync_counter>>
exchangeVars == <<exPosition, exOrders, market>>

\* ---------------------------------------------------- inputs of the model
\* TraderConfig values (budget in money units, min_gap and price_improvement
\* in cents, as in the program).
Configs == { [budget |-> 10 * Dollar, min_gap |-> 2, price_improvement |-> 1] }

\* The other participants' book: best and second-best level per side and the
\* market's minimum order size (0: the exchange reports none).  In the last
\* market nobody else offers to sell.
Level(price, size) == [price |-> price, size |-> size]
Markets ==
  { [bids |-> {Level(50 * Cent, 100 * Share), Level(49 * Cent, 100 * Share)},
     asks |-> {Level(55 * Cent, 100 * Share), Level(56 * Cent, 100 * Share)},
     min_order_size |-> 5 * Share],
    [bids |-> {Level(50 * Cent, 100 * Share), Level(49 * Cent, 100 * Share)},
     asks |-> {Level(52 * Cent, 100 * Share), Level(53 * Cent, 100 * Share)},
     min_order_size |-> 0],
    [bids |-> {Level(53 * Cent, 100 * Share), Level(50 * Cent, 100 * Share)},
     asks |-> {Level(57 * Cent, 100 * Share), Level(58 * Cent, 100 * Share)},
     min_order_size |-> 5 * Share],
    [bids |-> {Level(50 * Cent, 100 * Share), Level(49 * Cent, 100 * Share)},
     asks |-> {},
     min_order_size |-> 5 * Share] }

InitialPositions == {0, 20 * Share}

NoBook == [best_bid |-> 0, best_ask |-> 0, second_best_bid |-> 0,
           second_best_ask |-> 0, best_bid_size |-> 0, best_ask_size |-> 0]

\* TraderState() as constructed (trader.py 16-38)
\* No call of _retry_operation is running.
NoRetry ==
  [max_retries |-> 0, retry_delay_seconds |-> 0, attempt |-> 0,
   last_exception |-> "None", calls |-> <<>>, slept |-> <<>>,
   returned |-> "None", raised |-> "None"]

\* No TraderManager is running.
NoManager == <<>>

TraderState0 ==
  [current_position |-> 0, total_pnl |-> 0, total_trades |-> 0,
   last_best_bid |-> 0, last_best_ask |-> 0, last_spread |-> 0,
   min_order_size |-> 0,
   active_buy_order_id |-> 0, active_buy_order_price |-> 0,
   active_buy_order_size |-> 0,
   active_sell_order_id |-> 0, active_sell_order_price |-> 0,
   active_sell_order_size |-> 0]

Init ==
  /\ config \in Configs
  /\ state = TraderState0
  /\ avg_cost_basis = NoneV
  /\ position_synced = FALSE
  /\ position_sync_counter = 0
  /\ pc = "idle"
  /\ book = NoBook
  /\ exPosition \in InitialPositions
  /\ exOrders = <<>>
  /\ market \in Markets
  /\ subs = {}
  /\ applied = <<>>
  /\ atStart = [buy |-> 0, sell |-> 0, save_fill |-> "none"]
  /\ steps = 0
  /\ faults = 0
  /\ retry = NoRetry
  /\ mgr = NoManager

\* ----------------------------------------------------------- the exchange
\* An order of the agent on the exchange: side, price and size as accepted
\* (rounded by the execution layer), the filled part and the status.
OpenIdsIn(orders, side) ==
  {i \in 1..Len(orders) : orders[i].side = side /\ orders[i].status = "OPEN"}
OpenIds(side) == OpenIdsIn(exOrders, side)

RECURSIVE SumRemainingIn(_, _)
SumRemainingIn(orders, S) ==
  IF S = {} THEN 0
  ELSE LET i == CHOOSE x \in S : TRUE
       IN  (orders[i].size - orders[i].filled) + SumRemainingIn(orders, S \ {i})
SumRemaining(S) == SumRemainingIn(exOrders, S)
Remaining(i) == exOrders[i].size - exOrders[i].filled

\* Inventory the exchange has not locked in the agent's open SELL orders.
FreeInventoryIn(orders) ==
  exPosition - SumRemainingIn(orders, OpenIdsIn(orders, "SELL"))

\* get_orderbook: the price levels of one side, the other participants'
\* orders and the agent's own open orders aggregated by price.
OthersAt(levels, p) ==
  IF \E l \in levels : l.price = p
  THEN (CHOOSE l \in levels : l.price = p).size ELSE 0
SideLevels(m, side) ==
  LET others == IF side = "BUY" THEN m.bids ELSE m.asks
      prices == {l.price : l \in others}
                  \cup {exOrders[i].price : i \in OpenIds(side)}
  IN  { Level(p, OthersAt(others, p)
                  + SumRemaining({i \in OpenIds(side) : exOrders[i].price = p}))
        : p \in prices }
get_orderbook(m) ==
  [bids |-> SideLevels(m, "BUY"), asks |-> SideLevels(m, "SELL"),
   min_order_size |-> m.min_order_size]

\* Trader._extract_best_prices: bids[-1], bids[-2], asks[-1], asks[-2] of
\* the sorted book (0 where the program has None).
SizeAt(levels, p) == (CHOOSE l \in levels : l.price = p).size
extract_best_prices(orderbook) ==
  LET bp == {l.price : l \in orderbook.bids}
      ap == {l.price : l \in orderbook.asks}
      bb == IF bp = {} THEN 0 ELSE MaxOf(bp)
      ba == IF ap = {} THEN 0 ELSE MinOf(ap)
  IN  [best_bid |-> bb,
       best_ask |-> ba,
       second_best_bid |-> IF Cardinality(bp) >= 2 THEN MaxOf(bp \ {bb}) ELSE 0,
       second_best_ask |-> IF Cardinality(ap) >= 2 THEN MinOf(ap \ {ba}) ELSE 0,
       best_bid_size |-> IF bp = {} THEN 0 ELSE SizeAt(orderbook.bids, bb),
       best_ask_size |-> IF ap = {} THEN 0 ELSE SizeAt(orderbook.asks, ba)]

\* A book whose best bid reaches its best ask does not rest: the exchange
\* matches the crossing orders first.
Crossed(m) ==
  LET b == extract_best_prices(get_orderbook(m))
  IN  b.best_bid # 0 /\ b.best_ask # 0 /\ b.best_bid >= b.best_ask

\* May one more exchange call fail?
MayFail(f) == f < MaxFaults

\* get_order_status: the status record of order i, or the call raises
\* ("ERROR").  NoOrder stands for the call that is not made because no order
\* is tracked.
OrderStatusIn(orders, i) ==
  [status |-> orders[i].status,
   filled_size |-> orders[i].filled,
   remaining_size |-> orders[i].size - orders[i].filled]
StatusError == [status |-> "ERROR", filled_size |-> 0, remaining_size |-> 0]
NoOrder == [status |-> "NONE", filled_size |-> 0, remaining_size |-> 0]
StatusReplies(i, f) ==
  IF i = 0 THEN {NoOrder}
  ELSE {OrderStatusIn(exOrders, i)} \cup (IF MayFail(f) THEN {StatusError} ELSE {})
StatusFault(status) == IF status = StatusError THEN 1 ELSE 0

\* submit_limit on the exchange: the order as the execution layer sends it.
ExSubmit(orders, side, price, size) ==
  Append(orders, [side |-> side, price |-> RoundPrice(price),
                  size |-> RoundSize(size), filled |-> 0, status |-> "OPEN"])
\* Outcomes of submit_limit: accepted ("ok"), a transport or exchange error
\* ("error"), or the rejection "not enough balance / allowance" ("balance"),
\* which is what the exchange answers to a SELL of more than the free
\* inventory.
SubmitOutcomes(orders, side, size, f) ==
  IF side = "SELL" /\ RoundSize(size) > FreeInventoryIn(orders) THEN {"balance"}
  ELSE (IF Len(orders) < MaxOrders THEN {"ok"} ELSE {})
         \cup (IF MayFail(f) THEN {"error"} ELSE {})

\* cancel on the exchange: the order is cancelled, or the call returns
\* without cancelling it, or the call raises.
CancelOutcomes(orders, i, f) ==
  (IF orders[i].status = "OPEN" THEN {"cancelled"} ELSE {"not_cancelled"})
    \cup (IF MayFail(f)
          THEN (IF orders[i].status = "OPEN" THEN {"not_cancelled", "raise"}
                ELSE {"raise"})
          ELSE {})
CancelFault(orders, i, outcome) ==
  IF outcome = "raise" \/ (outcome = "not_cancelled" /\ orders[i].status = "OPEN")
  THEN 1 ELSE 0
ExCancel(orders, i, outcome) ==
  IF outcome = "cancelled" /\ orders[i].status = "OPEN"
  THEN [orders EXCEPT ![i].status = "CANCELLED"]
  ELSE orders

\* ------------------------------------------------- the agent: pure parts
min_gap_decimal(cfg) == cfg.min_gap * Cent
price_improvement_decimal(cfg) == cfg.price_improvement * Cent
MinOrderSize(st) == IF st.min_order_size # 0 THEN st.min_order_size ELSE MIN_ORDER_SIZE

\* Trader._register_order / _unregister_order
register_order(st, order_id, side, price, size) ==
  IF side = "BUY"
  THEN [st EXCEPT !.active_buy_order_id = order_id,
                  !.active_buy_order_price = price,
                  !.active_buy_order_size = size]
  ELSE [st EXCEPT !.active_sell_order_id = order_id,
                  !.active_sell_order_price = price,
                  !.active_sell_order_size = size]
unregister_order(st, side) == register_order(st, 0, side, 0, 0)

\* Trader._update_market_state
update_market_state(st, best_bid, best_ask, min_order_size) ==
  [st EXCEPT !.last_best_bid = best_bid,
             !.last_best_ask = best_ask,
             !.last_spread = best_ask - best_bid,
             !.min_order_size = IF min_order_size # 0 THEN min_order_size ELSE @]

\* Trader._extract_filled_size
extract_filled_size(status, original_size) ==
  IF status.filled_size # 0 THEN status.filled_size
  ELSE IF status.remaining_size # 0 /\ original_size - status.remaining_size > 0
       THEN original_size - status.remaining_size
  ELSE IF status.status = "FILLED" THEN original_size
  ELSE 0

\* budget - abs(current_position * (last_best_bid or best_bid))
available_budget(st, cfg, best_bid) ==
  cfg.budget
    - Abs(st.current_position
            * (IF st.last_best_bid # 0 THEN st.last_best_bid ELSE best_bid))

\* Variant of check_buy_status: the first fill does not set the cost basis.
check_buy_status_no_basis(st, acb, status) ==
  IF status.status = "FILLED" THEN
    LET filled_size == extract_filled_size(status, st.active_buy_order_size)
    IN  [state |-> unregister_order(
                     [st EXCEPT !.current_position =
                                   IF filled_size > 0 THEN @ + filled_size ELSE @,
                                !.total_trades = @ + 1], "BUY"),
         avg |-> acb, filled |-> TRUE, size |-> filled_size]
  ELSE [state |-> IF status.status \in {"CANCELLED", "REJECTED"}
                  THEN unregister_order(st, "BUY") ELSE st,
        avg |-> acb, filled |-> FALSE, size |-> 0]

\* Variant of check_buy_status: the cost basis becomes the plain mean of the
\* old basis and the fill price, whatever the sizes.
check_buy_status_plain_mean(st, acb, status) ==
  IF status.status = "FILLED" THEN
    LET filled_size == extract_filled_size(status, st.active_buy_order_size)
        fill_price == st.active_buy_order_price
    IN  [state |-> unregister_order(
                     [st EXCEPT !.current_position =
                                   IF filled_size > 0 THEN @ + filled_size ELSE @,
                                !.total_trades = @ + 1], "BUY"),
         avg |-> IF filled_size <= 0 THEN acb
                 ELSE IF acb = NoneV THEN Some(fill_price)
                 ELSE Some((acb[1] + fill_price) \div 2),
         filled |-> TRUE, size |-> filled_size]
  ELSE [state |-> IF status.status \in {"CANCELLED", "REJECTED"}
                  THEN unregister_order(st, "BUY") ELSE st,
        avg |-> acb, filled |-> FALSE, size |-> 0]

\* Trader._check_order_status, BUY part, given the status the exchange
\* returned.  The result is the new TraderState and cost basis, and whether a
\* FILLED status was applied.  A raised exception (the call failing, or the
\* division by zero in the weighted average) leaves everything as it was.
check_buy_status(st, acb, status) ==
  LET same == [state |-> st, avg |-> acb, filled |-> FALSE, size |-> 0] IN
  IF status.status = "FILLED" THEN
    LET filled_size == extract_filled_size(status, st.active_buy_order_size)
        fill_price == st.active_buy_order_price
        old_position == st.current_position
    IN  IF filled_size > 0 /\ acb # NoneV /\ old_position + filled_size = 0
        THEN same
        ELSE [state |-> unregister_order(
                          [st EXCEPT !.current_position =
                                        IF filled_size > 0 THEN @ + filled_size ELSE @,
                                     !.total_trades = @ + 1], "BUY"),
              avg |-> IF filled_size <= 0 THEN acb
                      ELSE IF acb = NoneV THEN Some(fill_price)
                      ELSE Some((acb[1] * old_position + fill_price * filled_size)
                                  \div (old_position + filled_size)),
              filled |-> TRUE, size |-> filled_size]
  ELSE IF status.status \in {"CANCELLED", "REJECTED"} THEN
    [same EXCEPT !.state = unregister_order(st, "BUY")]
  ELSE same

\* Variant of check_sell_status: a filled order stays tracked.
check_sell_status_tracked(st, acb, status) ==
  IF status.status = "FILLED" THEN
    LET filled_size == extract_filled_size(status, st.active_sell_order_size)
        pnl == IF filled_size > 0 /\ acb # NoneV
               THEN (st.active_sell_order_price - acb[1]) * filled_size ELSE 0
        pos == IF filled_size > 0 THEN st.current_position - filled_size
               ELSE st.current_position
    IN  [state |-> [st EXCEPT !.current_position = pos,
                              !.total_pnl = @ + pnl,
                              !.total_trades = @ + 1],
         avg |-> IF filled_size > 0 /\ pos <= 0 THEN NoneV ELSE acb,
         filled |-> TRUE, size |-> filled_size]
  ELSE [state |-> IF status.status \in {"CANCELLED", "REJECTED"}
                  THEN unregister_order(st, "SELL") ELSE st,
        avg |-> acb, filled |-> FALSE, size |-> 0]

\* Variant of check_sell_status: a cancelled or rejected order is counted as
\* a trade.
check_sell_status_end_counted(st, acb, status) ==
  IF status.status = "FILLED" THEN
    LET filled_size == extract_filled_size(status, st.active_sell_order_size)
        pnl == IF filled_size > 0 /\ acb # NoneV
               THEN (st.active_sell_order_price - acb[1]) * filled_size ELSE 0
        pos == IF filled_size > 0 THEN st.current_position - filled_size
               ELSE st.current_position
    IN  [state |-> unregister_order(
                     [st EXCEPT !.current_position = pos,
                                !.total_pnl = @ + pnl,
                                !.total_trades = @ + 1], "SELL"),
         avg |-> IF filled_size > 0 /\ pos <= 0 THEN NoneV ELSE acb,
         filled |-> TRUE, size |-> filled_size]
  ELSE [state |-> IF status.status \in {"CANCELLED", "REJECTED"}
                  THEN unregister_order([st EXCEPT !.total_trades = @ + 1],
                                        "SELL")
                  ELSE st,
        avg |-> acb, filled |-> FALSE, size |-> 0]

\* Trader._check_order_status, SELL part.
check_sell_status(st, acb, status) ==
  LET same == [state |-> st, avg |-> acb, filled |-> FALSE, size |-> 0] IN
  IF status.status = "FILLED" THEN
    LET filled_size == extract_filled_size(status, st.active_sell_order_size)
        fill_price == st.active_sell_order_price
        pnl == IF filled_size > 0 /\ acb # NoneV
               THEN (fill_price - acb[1]) * filled_size ELSE 0
        pos == IF filled_size > 0 THEN st.current_position - filled_size
               ELSE st.current_position
    IN  [state |-> unregister_order(
                     [st EXCEPT !.current_position = pos,
                                !.total_pnl = @ + pnl,
                                !.total_trades = @ + 1], "SELL"),
         avg |-> IF filled_size > 0 /\ pos <= 0 THEN NoneV ELSE acb,
         filled |-> TRUE, size |-> filled_size]
  ELSE IF status.status \in {"CANCELLED", "REJECTED"} THEN
    [same EXCEPT !.state = unregister_order(st, "SELL")]
  ELSE same

\* ------------------------------------------------------ the agent's step
\* Trader.step up to and including _check_order_status: the BUY order's
\* status is fetched and applied, then the SELL order's.
Applied(a, order_id, filled) ==
  IF filled THEN [a EXCEPT ![order_id] = @ + 1] ELSE a

\* Trader._save_fill as the status check sees it.  The store is not
\* configured or not available ("unavailable": the call returns at once), the
\* row is written ("saved"), or the lookup of the trader id or the insert
\* fails ("failed": both errors are caught where they occur, the insert on a
\* background thread).
SaveFillOutcomes == {"unavailable", "saved", "failed"}
\* Variant of save_fill_returns: a failing store raises into the status check.
save_fill_returns_if_stored(outcome) == outcome # "failed"
\* Whether _save_fill returns to the status check, instead of raising.
save_fill_returns(outcome) == outcome \in SaveFillOutcomes

\* The outcome r of one side's status check with its _save_fill call: when
\* the call raises, inventory, cost basis and P&L are already updated and
\* the rest of the branch (the reset of the cost basis of a flat position,
\* _unregister_order, total_trades) is skipped.
with_save_fill(st, acb, r, side, outcome) ==
  IF r.filled /\ r.size > 0 /\ ~save_fill_returns(outcome)
  THEN [r EXCEPT !.state = [st EXCEPT !.current_position = r.state.current_position,
                                      !.total_pnl = r.state.total_pnl],
                 !.avg = IF side = "BUY" THEN r.avg ELSE acb]
  ELSE r

\* _check_order_status with the store answering every _save_fill of the
\* check with outcome.
check_order_status_with(outcome) ==
  \E bs \in StatusReplies(state.active_buy_order_id, faults) :
    LET rb == with_save_fill(state, avg_cost_basis,
                             check_buy_status(state, avg_cost_basis, bs),
                             "BUY", outcome)
        fb == faults + StatusFault(bs)
    IN  \E ss \in StatusReplies(state.active_sell_order_id, fb) :
          LET rs == with_save_fill(rb.state, rb.avg,
                                   check_sell_status(rb.state, rb.avg, ss),
                                   "SELL", outcome) IN
          /\ state' = rs.state
          /\ avg_cost_basis' = rs.avg
          /\ applied' = Applied(Applied(applied, state.active_buy_order_id,
                                        rb.filled),
                                state.active_sell_order_id, rs.filled)
          /\ faults' = fb + StatusFault(ss)
check_order_status ==
  \E outcome \in SaveFillOutcomes : check_order_status_with(outcome)

\* The orders whose fill the status check has just applied.
JustApplied ==
  {i \in DOMAIN applied : applied'[i] > applied[i]}

CheckOrderStatus ==
  /\ pc = "idle"
  /\ steps < MaxSteps
  /\ steps' = steps + 1
  /\ pc' = "fetch"
  /\ subs' = {}
  /\ atStart' = [buy |-> state.active_buy_order_id,
                 sell |-> state.active_sell_order_id,
                 save_fill |-> "none"]
  /\ check_order_status
  /\ UNCHANGED <<config, retry, mgr, position_synced, position_sync_counter, book,
                 exchangeVars>>

\* Variant of the fetch that records the market state before it tests for a
\* missing side.
FetchOrderbookUpdatesFirst ==
  /\ pc = "fetch"
  /\ \E ok \in {TRUE} \cup (IF MayFail(faults) THEN {FALSE} ELSE {}) :
       IF ~ok
       THEN /\ pc' = "idle"
            /\ faults' = faults + 1
            /\ book' = NoBook
            /\ UNCHANGED <<state, market>>
       ELSE \E m \in Markets :
              /\ ~Crossed(m)
              /\ market' = m
              /\ UNCHANGED faults
              /\ LET orderbook == get_orderbook(m)
                     b == extract_best_prices(orderbook)
                 IN  /\ state' = update_market_state(
                                   state, b.best_bid, b.best_ask,
                                   orderbook.min_order_size)
                     /\ IF b.best_bid = 0 \/ b.best_ask = 0
                        THEN pc' = "idle" /\ book' = NoBook
                        ELSE pc' = "update_position" /\ book' = b
  /\ UNCHANGED <<config, retry, mgr, avg_cost_basis, position_synced, position_sync_counter,
                 exPosition, exOrders, subs, applied, atStart, steps>>

\* _fetch_orderbook, _extract_best_prices and _update_market_state.  The
\* other participants' book at the time of the call is any of Markets that
\* does not cross the agent's open orders; the call may also fail, which
\* ends the step.
FetchOrderbook ==
  /\ pc = "fetch"
  /\ \E ok \in {TRUE} \cup (IF MayFail(faults) THEN {FALSE} ELSE {}) :
       IF ~ok
       THEN /\ pc' = "idle"
            /\ faults' = faults + 1
            /\ book' = NoBook
            /\ UNCHANGED <<state, market>>
       ELSE \E m \in Markets :
              /\ ~Crossed(m)
              /\ market' = m
              /\ UNCHANGED faults
              /\ LET orderbook == get_orderbook(m)
                     b == extract_best_prices(orderbook)
                 IN  IF b.best_bid = 0 \/ b.best_ask = 0
                     THEN /\ pc' = "idle"
                          /\ book' = NoBook
                          /\ UNCHANGED state
                     ELSE /\ pc' = "update_position"
                          /\ book' = b
                          /\ state' = update_market_state(
                                        state, b.best_bid, b.best_ask,
                                        orderbook.min_order_size)
  /\ UNCHANGED <<config, retry, mgr, avg_cost_basis, position_synced, position_sync_counter,
                 exPosition, exOrders, subs, applied, atStart, steps>>

\* get_market_position as the agent sees it: the call returns the exchange's
\* inventory ("ok"), raises ("raise"), or, when the positions request failed
\* inside the service, returns 0.0 in place of the inventory ("zero").
PositionOutcomes(f) ==
  {"ok"} \cup (IF MayFail(f) THEN {"raise", "zero"} ELSE {})
get_market_position(outcome) ==
  IF outcome = "zero" THEN 0 ELSE exPosition

\* Trader._update_position.  elapsed: 30 seconds have passed since the last
\* sync.
should_sync(elapsed) ==
  \/ ~position_synced
  \/ position_sync_counter >= POSITION_SYNC_INTERVAL
  \/ elapsed
UpdatePosition ==
  /\ pc = "update_position"
  /\ pc' = "update_buy"
  /\ \E elapsed \in BOOLEAN :
       IF should_sync(elapsed)
       THEN \E outcome \in PositionOutcomes(faults) :
              /\ faults' = IF outcome = "ok" THEN faults ELSE faults + 1
              /\ IF outcome # "raise"
                 THEN /\ state' = [state EXCEPT !.current_position =
                                                  get_market_position(outcome)]
                      /\ position_synced' = TRUE
                      /\ position_sync_counter' = 0
                 ELSE /\ position_synced' = TRUE
                      /\ UNCHANGED <<state, position_sync_counter>>
       ELSE /\ position_sync_counter' = position_sync_counter + 1
            /\ UNCHANGED <<state, position_synced, faults>>
  /\ UNCHANGED <<config, retry, mgr, avg_cost_basis, book, exchangeVars, subs, applied,
                 atStart, steps>>

\* Trader._update_orders, BUY part: the price to replace the resting BUY
\* order at, or 0 to leave it.
buy_replace_price(st, bk, cfg) ==
  LET our_buy_price == st.active_buy_order_price
      target_price == bk.best_bid + price_improvement_decimal(cfg)
      price_diff == Abs(our_buy_price - bk.best_bid)
      is_our_order_best_bid ==
        \/ price_diff < PRICE_UPDATE_THRESHOLD
        \/ /\ our_buy_price >= bk.best_bid
           /\ price_diff <= price_improvement_decimal(cfg) + PRICE_UPDATE_THRESHOLD
      is_sole_best_bid == Abs(bk.best_bid_size - st.active_buy_order_size) < SOLE_EPS
      gap_target_price == bk.second_best_bid + price_improvement_decimal(cfg)
      to_target == IF Abs(target_price - our_buy_price) > PRICE_UPDATE_THRESHOLD
                   THEN target_price ELSE 0
  IN  IF is_our_order_best_bid THEN
        IF bk.second_best_bid # 0 /\ is_sole_best_bid THEN
          IF /\ Abs(gap_target_price - our_buy_price) > PRICE_UPDATE_THRESHOLD
             /\ gap_target_price >= bk.second_best_bid
          THEN gap_target_price ELSE 0
        ELSE IF Abs(our_buy_price - bk.best_bid) > PRICE_UPDATE_THRESHOLD
             THEN to_target ELSE 0
      ELSE to_target

\* Variant of sell_replace_price: an order that is not the best ask joins the
\* best ask instead of improving on it.
sell_replace_price_join(st, bk, cfg) ==
  LET our_sell_price == st.active_sell_order_price
      price_diff == Abs(our_sell_price - bk.best_ask)
      is_our_order_best_ask ==
        \/ price_diff < PRICE_UPDATE_THRESHOLD
        \/ /\ our_sell_price <= bk.best_ask
           /\ price_diff <= price_improvement_decimal(cfg) + PRICE_UPDATE_THRESHOLD
      is_sole_best_ask == Abs(bk.best_ask_size - st.active_sell_order_size) < SOLE_EPS
      gap_target_price == bk.second_best_ask - price_improvement_decimal(cfg)
  IN  IF is_our_order_best_ask THEN
        IF bk.second_best_ask # 0 /\ is_sole_best_ask
             /\ Abs(gap_target_price - our_sell_price) > PRICE_UPDATE_THRESHOLD
             /\ gap_target_price <= bk.second_best_ask
        THEN gap_target_price ELSE 0
      ELSE bk.best_ask

\* Variant of sell_replace_price: a sole best ask stays where it is.
sell_replace_price_no_gap(st, bk, cfg) ==
  LET our_sell_price == st.active_sell_order_price
      target_price == bk.best_ask - price_improvement_decimal(cfg)
      price_diff == Abs(our_sell_price - bk.best_ask)
      is_our_order_best_ask ==
        \/ price_diff < PRICE_UPDATE_THRESHOLD
        \/ /\ our_sell_price <= bk.best_ask
           /\ price_diff <= price_improvement_decimal(cfg) + PRICE_UPDATE_THRESHOLD
  IN  IF is_our_order_best_ask THEN 0
      ELSE IF Abs(target_price - our_sell_price) > PRICE_UPDATE_THRESHOLD
           THEN target_price ELSE 0

\* Trader._update_orders, SELL part.
sell_replace_price(st, bk, cfg) ==
  LET our_sell_price == st.active_sell_order_price
      target_price == bk.best_ask - price_improvement_decimal(cfg)
      price_diff == Abs(our_sell_price - bk.best_ask)
      is_our_order_best_ask ==
        \/ price_diff < PRICE_UPDATE_THRESHOLD
        \/ /\ our_sell_price <= bk.best_ask
           /\ price_diff <= price_improvement_decimal(cfg) + PRICE_UPDATE_THRESHOLD
      is_sole_best_ask == Abs(bk.best_ask_size - st.active_sell_order_size) < SOLE_EPS
      gap_target_price == bk.second_best_ask - price_improvement_decimal(cfg)
      to_target == IF Abs(target_price - our_sell_price) > PRICE_UPDATE_THRESHOLD
                   THEN target_price ELSE 0
  IN  IF is_our_order_best_ask THEN
        IF bk.second_best_ask # 0 /\ is_sole_best_ask THEN
          IF /\ Abs(gap_target_price - our_sell_price) > PRICE_UPDATE_THRESHOLD
             /\ gap_target_price <= bk.second_best_ask
          THEN gap_target_price ELSE 0
        ELSE IF Abs(our_sell_price - bk.best_ask) > PRICE_UPDATE_THRESHOLD
             THEN to_target ELSE 0
      ELSE to_target

\* Trader._replace_order, step 2: the size of the new order, 0 when the
\* method returns without submitting.
buy_replace_size(st, cfg, best_bid) ==
  LET avail == available_budget(st, cfg, best_bid)
  IN  IF avail <= 0 THEN 0 ELSE avail \div best_bid

\* Variant of sell_replace_size: the whole position, without the buffer.
sell_replace_size_whole(st) ==
  IF st.current_position <= 0 THEN 0
  ELSE IF st.current_position < MinOrderSize(st) THEN 0
  ELSE st.current_position

sell_replace_size(st) ==
  IF st.current_position <= 0 THEN 0
  ELSE LET order_size == Max(0, st.current_position - SAFETY_BUFFER)
       IN  IF order_size <= 0 THEN 0
           ELSE IF order_size < MinOrderSize(st) THEN 0
           ELSE order_size

\* Variant of buy_order: the order joins the best bid instead of improving it.
buy_order_at_bid(st, cfg, best_bid) ==
  LET avail == available_budget(st, cfg, best_bid)
      size == IF avail <= 0 THEN 0 ELSE avail \div best_bid
  IN  IF st.last_spread = 0 \/ st.last_spread < min_gap_decimal(cfg)
         \/ size < MinOrderSize(st)
      THEN [price |-> best_bid, size |-> 0, avail |-> avail]
      ELSE [price |-> best_bid, size |-> size, avail |-> avail]

\* Trader._try_place_buy_order: price and size of the BUY order to place
\* (size 0: no order), with the available budget it was sized from.
buy_order(st, cfg, best_bid) ==
  LET avail == available_budget(st, cfg, best_bid)
      buy_price == best_bid + price_improvement_decimal(cfg)
      size0 == avail \div buy_price
      over == size0 * buy_price > avail
      size1 == IF over THEN (avail - avail \div 1000) \div buy_price ELSE size0
      none == [price |-> buy_price, size |-> 0, avail |-> avail]
  IN  IF st.last_spread = 0 \/ st.last_spread < min_gap_decimal(cfg) THEN none
      ELSE IF avail <= 0 THEN none
      ELSE IF size0 <= 0 THEN none
      ELSE IF over /\ size1 * buy_price > avail THEN none
      ELSE IF size1 < MinOrderSize(st) THEN none
      ELSE [price |-> buy_price, size |-> size1, avail |-> avail]

\* Variant of sell_order_size: no minimum order size check.
sell_order_size_no_min(st) ==
  IF st.current_position <= 0 THEN 0
  ELSE LET locked == IF st.active_sell_order_id # 0
                     THEN st.active_sell_order_size ELSE 0
           available_position == st.current_position - locked
           safety_buffer == Max(SAFETY_BUFFER, available_position \div 100)
       IN  IF available_position <= 0 THEN 0
           ELSE Max(0, available_position - safety_buffer)

\* Variant of sell_order_size: the size is raised to the minimum order size
\* instead of the order being skipped.
sell_order_size_clamped(st) ==
  LET locked == IF st.active_sell_order_id # 0
                THEN st.active_sell_order_size ELSE 0
      available_position == st.current_position - locked
      safety_buffer == Max(SAFETY_BUFFER, available_position \div 100)
  IN  Max(MinOrderSize(st), available_position - safety_buffer)

\* Trader._try_place_sell_order after the position re-query: the size of the
\* SELL order to place, 0 for none.
sell_order_size(st) ==
  IF st.current_position <= 0 THEN 0
  ELSE LET locked == IF st.active_sell_order_id # 0
                     THEN st.active_sell_order_size ELSE 0
           available_position == st.current_position - locked
           safety_buffer == Max(SAFETY_BUFFER, available_position \div 100)
           order_size == Max(0, available_position - safety_buffer)
       IN  IF available_position <= 0 THEN 0
           ELSE IF order_size <= 0 THEN 0
           ELSE IF order_size < MinOrderSize(st) THEN 0
           ELSE order_size

\* The record kept of one submit_limit call.
Submission(side, via, price, size, st, avail, orders, outcome) ==
  [side |-> side, via |-> via, price |-> price, size |-> size,
   pos |-> st.current_position, avail |-> avail,
   expos |-> exPosition, free |-> FreeInventoryIn(orders),
   spread |-> book.best_ask - book.best_bid, outcome |-> outcome]

\* submit_limit with the bookkeeping that follows it in _place_order and in
\* _replace_order: st and orders are the agent's and the exchange's state
\* just before the call.
submit(side, via, price, size, st, avail, orders, f) ==
  \E outcome \in SubmitOutcomes(orders, side, size, f) :
    /\ faults' = IF outcome = "error" THEN f + 1 ELSE f
    /\ subs' = subs \cup {Submission(side, via, price, size, st, avail,
                                      orders, outcome)}
    /\ IF outcome = "ok"
       THEN /\ exOrders' = ExSubmit(orders, side, price, size)
            /\ applied' = Append(applied, 0)
            /\ state' = register_order(st, Len(orders) + 1, side, price, size)
            /\ UNCHANGED position_synced
       ELSE /\ exOrders' = orders
            /\ state' = st
            /\ position_synced' = IF outcome = "balance" /\ side = "SELL"
                                  THEN FALSE ELSE position_synced
            /\ UNCHANGED applied

\* Trader._replace_order
replace_order(old_order_id, side, new_price) ==
  \E c \in CancelOutcomes(exOrders, old_order_id, faults) :
    IF c = "raise"
    THEN /\ faults' = faults + 1
         /\ UNCHANGED <<state, exOrders, subs, applied, position_synced>>
    ELSE LET orders == ExCancel(exOrders, old_order_id, c)
             f == faults + CancelFault(exOrders, old_order_id, c)
             st == unregister_order(state, side)
             order_size == IF side = "BUY"
                           THEN buy_replace_size(st, config, book.best_bid)
                           ELSE sell_replace_size(st)
             avail == IF side = "BUY"
                      THEN available_budget(st, config, book.best_bid) ELSE 0
         IN  IF order_size > 0
             THEN submit(side, "replace", new_price, order_size, st, avail,
                         orders, f)
             ELSE /\ state' = st
                  /\ exOrders' = orders
                  /\ faults' = f
                  /\ UNCHANGED <<subs, applied, position_synced>>

\* _update_orders, BUY part
UpdateBuyOrder ==
  /\ pc = "update_buy"
  /\ pc' = "update_sell"
  /\ LET new_price == IF state.active_buy_order_id # 0
                      THEN buy_replace_price(state, book, config) ELSE 0
     IN  IF new_price # 0
         THEN replace_order(state.active_buy_order_id, "BUY", new_price)
         ELSE UNCHANGED <<state, exOrders, subs, applied, position_synced, faults>>
  /\ UNCHANGED <<config, retry, mgr, avg_cost_basis, position_sync_counter, book,
                 exPosition, market, atStart, steps>>

\* _update_orders, SELL part
UpdateSellOrder ==
  /\ pc = "update_sell"
  /\ pc' = "cancel"
  /\ LET new_price == IF state.active_sell_order_id # 0
                      THEN sell_replace_price(state, book, config) ELSE 0
     IN  IF new_price # 0
         THEN replace_order(state.active_sell_order_id, "SELL", new_price)
         ELSE UNCHANGED <<state, exOrders, subs, applied, position_synced, faults>>
  /\ UNCHANGED <<config, retry, mgr, avg_cost_basis, position_sync_counter, book,
                 exPosition, market, atStart, steps>>

\* Trader._check_and_cancel_invalid_orders: the two decisions
should_cancel_buy(st, cfg, best_bid, best_ask) ==
  LET current_spread == best_ask - best_bid
      min_order_value_buy == MinOrderSize(st) * best_bid
  IN  \/ current_spread < min_gap_decimal(cfg)
      \/ available_budget(st, cfg, best_bid) < min_order_value_buy

should_cancel_sell(st) ==
  LET available_to_sell == Max(0, st.current_position - SAFETY_BUFFER)
  IN  \/ st.current_position <= 0
      \/ available_to_sell < MinOrderSize(st)

\* cancel followed by _unregister_order, inside try/except: the agent's and
\* the exchange's state after the cancel call ended with outcome c.
cancel_and_unregister(st, orders, f, order_id, side, c) ==
  [state |-> IF c = "raise" THEN st ELSE unregister_order(st, side),
   orders |-> ExCancel(orders, order_id, c),
   faults |-> f + CancelFault(orders, order_id, c)]
CancelChoices(orders, f, order_id, wanted) ==
  IF order_id # 0 /\ wanted THEN CancelOutcomes(orders, order_id, f) ELSE {"none"}
Cancelled(st, orders, f, order_id, side, c) ==
  IF c = "none" THEN [state |-> st, orders |-> orders, faults |-> f]
  ELSE cancel_and_unregister(st, orders, f, order_id, side, c)

CheckAndCancelInvalidOrders ==
  /\ pc = "cancel"
  /\ pc' = "place_buy"
  /\ \E cb \in CancelChoices(exOrders, faults, state.active_buy_order_id,
                             should_cancel_buy(state, config, book.best_bid,
                                               book.best_ask)) :
       LET b == Cancelled(state, exOrders, faults, state.active_buy_order_id,
                          "BUY", cb)
       IN  \E cs \in CancelChoices(b.orders, b.faults,
                                   b.state.active_sell_order_id,
                                   should_cancel_sell(b.state)) :
             LET r == Cancelled(b.state, b.orders, b.faults,
                                b.state.active_sell_order_id, "SELL", cs)
             IN  /\ state' = r.state
                 /\ exOrders' = r.orders
                 /\ faults' = r.faults
  /\ UNCHANGED <<config, retry, mgr, avg_cost_basis, position_synced, position_sync_counter,
                 book, exPosition, market, subs, applied, atStart, steps>>

\* step: "if not active_buy_order_id: _try_place_buy_order" with _place_order
TryPlaceBuyOrder ==
  /\ pc = "place_buy"
  /\ pc' = "place_sell"
  /\ LET o == buy_order(state, config, book.best_bid)
     IN  IF state.active_buy_order_id = 0 /\ o.size > 0
         THEN submit("BUY", "place", o.price, o.size, state, o.avail, exOrders,
                     faults)
         ELSE UNCHANGED <<state, exOrders, subs, applied, position_synced, faults>>
  /\ UNCHANGED <<config, retry, mgr, avg_cost_basis, position_sync_counter, book,
                 exPosition, market, atStart, steps>>

\* _try_place_sell_order, the re-query of a position that is <= 0: the call
\* returns the exchange's inventory (ok) or raises.
requery_position(st, ok) ==
  IF st.current_position <= 0 /\ ok /\ exPosition > 0
     /\ Abs(exPosition - st.current_position) > POSITION_EPS
  THEN [st EXCEPT !.current_position = exPosition]
  ELSE st

\* step: "if not active_sell_order_id: _try_place_sell_order" with
\* _place_order; the step ends here.
TryPlaceSellOrder ==
  /\ pc = "place_sell"
  /\ pc' = "idle"
  /\ IF state.active_sell_order_id # 0
     THEN UNCHANGED <<state, exOrders, subs, applied, position_synced, faults>>
     ELSE \E ok \in {TRUE} \cup (IF MayFail(faults) /\ state.current_position <= 0
                               THEN {FALSE} ELSE {}) :
            LET st == requery_position(state, ok)
                f == IF ok THEN faults ELSE faults + 1
                order_size == sell_order_size(st)
                sell_price == book.best_ask - price_improvement_decimal(config)
            IN  IF order_size > 0
                THEN submit("SELL", "place", sell_price, order_size, st, 0,
                            exOrders, f)
                ELSE /\ state' = st
                     /\ faults' = f
                     /\ UNCHANGED <<exOrders, subs, applied, position_synced>>
  /\ UNCHANGED <<config, retry, mgr, avg_cost_basis, position_sync_counter, book,
                 exPosition, market, atStart, steps>>

\* -------------------------------------------------- the exchange's moves
\* A counterparty takes the whole rest of an open order of the agent.
FillAll ==
  \E i \in 1..Len(exOrders) :
    /\ exOrders[i].status = "OPEN"
    /\ exPosition' = IF exOrders[i].side = "BUY"
                     THEN exPosition + Remaining(i) ELSE exPosition - Remaining(i)
    /\ exOrders' = [exOrders EXCEPT ![i].filled = exOrders[i].size,
                                    ![i].status = "FILLED"]
    /\ UNCHANGED <<config, retry, mgr, agentVars, pc, book, market, subs, applied, atStart,
                   steps, faults>>

\* A counterparty takes half of an open, untouched SELL order of the agent;
\* the order keeps resting with the rest.  (BUY orders fill whole.)
HalfOf(size) == (size \div (2 * SIZE_TICK)) * SIZE_TICK
FillPart ==
  \E i \in 1..Len(exOrders) :
    /\ exOrders[i].status = "OPEN"
    /\ exOrders[i].side = "SELL"
    /\ exOrders[i].filled = 0
    /\ HalfOf(exOrders[i].size) > 0
    /\ exPosition' = exPosition - HalfOf(exOrders[i].size)
    /\ exOrders' = [exOrders EXCEPT ![i].filled = HalfOf(exOrders[i].size)]
    /\ UNCHANGED <<config, retry, mgr, agentVars, pc, book, market, subs, applied, atStart,
                   steps, faults>>

Next ==
  \/ CheckOrderStatus
  \/ FetchOrderbook
  \/ UpdatePosition
  \/ UpdateBuyOrder
  \/ UpdateSellOrder
  \/ CheckAndCancelInvalidOrders
  \/ TryPlaceBuyOrder
  \/ TryPlaceSellOrder
  \/ FillAll
  \/ FillPart

Spec == Init /\ [][Next]_vars

\* ------------------------------------------- reconciliation on its own
\* A second specification: orders are registered as _place_order registers
\* them after an accepted submit_limit, at any of a few prices and sizes,
\* the exchange fills them, and _check_order_status reconciles the fills.
\* The agent starts flat, and every exchange call succeeds.
ReconPrices == {40 * Cent, 45 * Cent, 50 * Cent}
ReconSizes == {5 * Share, 10 * Share}

InitRecon ==
  /\ config \in Configs
  /\ state = TraderState0
  /\ avg_cost_basis = NoneV
  /\ position_synced = FALSE
  /\ position_sync_counter = 0
  /\ pc = "idle"
  /\ book = NoBook
  /\ exPosition = 0
  /\ exOrders = <<>>
  /\ market \in Markets
  /\ subs = {}
  /\ applied = <<>>
  /\ atStart = [buy |-> 0, sell |-> 0, save_fill |-> "none"]
  /\ steps = 0
  /\ faults = MaxFaults
  /\ retry = NoRetry
  /\ mgr = NoManager

\* _place_order with an accepted submission
PlaceOrder ==
  \E side \in {"BUY", "SELL"}, price \in ReconPrices, size \in ReconSizes :
    /\ IF side = "BUY" THEN state.active_buy_order_id = 0
                       ELSE state.active_sell_order_id = 0
    /\ "ok" \in SubmitOutcomes(exOrders, side, size, faults)
    /\ exOrders' = ExSubmit(exOrders, side, price, size)
    /\ applied' = Append(applied, 0)
    /\ state' = register_order(state, Len(exOrders) + 1, side, price, size)
    /\ UNCHANGED <<config, retry, mgr, avg_cost_basis, position_synced,
                   position_sync_counter, pc, book, exPosition, market, subs,
                   atStart, steps, faults>>

\* _check_order_status; atStart records how the store answered when the
\* check applied a fill.
ReconcileFills ==
  /\ \E outcome \in SaveFillOutcomes :
       /\ check_order_status_with(outcome)
       /\ atStart' = [atStart EXCEPT !.save_fill = IF JustApplied = {}
                                                   THEN "none" ELSE outcome]
  /\ UNCHANGED <<config, retry, mgr, position_synced, position_sync_counter, pc, book,
                 exchangeVars, subs, steps>>

NextRecon ==
  \/ PlaceOrder
  \/ FillAll
  \/ ReconcileFills

SpecRecon == InitRecon /\ [][NextRecon]_vars

\* ------------------------------- reconciliation with syncs and cancellations
\* A third specification: as the second, but the agent may start with an
\* inventory on the exchange, the position sync of _update_position runs
\* between the reconciliations, and the exchange may end an open order of
\* the agent on its own (CANCELLED or REJECTED).  Every call succeeds, and
\* the book, which plays no part here, is one of Markets.
InitFills ==
  /\ config \in Configs
  /\ state = TraderState0
  /\ avg_cost_basis = NoneV
  /\ position_synced = FALSE
  /\ position_sync_counter = 0
  /\ pc = "idle"
  /\ book = NoBook
  /\ exPosition \in InitialPositions
  /\ exOrders = <<>>
  /\ market \in {m \in Markets : m.min_order_size = 0}
  /\ subs = {}
  /\ applied = <<>>
  /\ atStart = [buy |-> 0, sell |-> 0, save_fill |-> "none"]
  /\ steps = 0
  /\ faults = MaxFaults
  /\ retry = NoRetry
  /\ mgr = NoManager

\* _update_position when it syncs and get_market_position returns
SyncPosition ==
  /\ state.current_position # exPosition \/ ~position_synced
  /\ state' = [state EXCEPT !.current_position = exPosition]
  /\ position_synced' = TRUE
  /\ position_sync_counter' = 0
  /\ UNCHANGED <<config, retry, mgr, avg_cost_basis, pc, book, exchangeVars, subs, applied,
                 atStart, steps, faults>>

\* The exchange ends an open order of the agent without a fill.
EndStatuses == {"CANCELLED", "REJECTED"}
CancelOrReject ==
  \E i \in 1..Len(exOrders), status \in EndStatuses :
    /\ exOrders[i].status = "OPEN"
    /\ exOrders' = [exOrders EXCEPT ![i].status = status]
    /\ UNCHANGED <<config, retry, mgr, agentVars, pc, book, exPosition, market, subs,
                   applied, atStart, steps, faults>>

NextFills ==
  \/ PlaceOrder
  \/ FillAll
  \/ CancelOrReject
  \/ SyncPosition
  \/ ReconcileFills

SpecFills == InitFills /\ [][NextFills]_vars

\* ------------------------------------------------- _replace_order by steps
\* A fourth specification: one call of _replace_order, cut at each of its
\* awaits.  pc is the position in the method:
\*   "replace"          before "await self.execution.cancel(old_order_id)"
\*   "replace_raised"   in the except branch, the cancel call having raised
\*   "replace_size"     the cancel call returned, the order is unregistered
\*   "replace_submit"   before "await self.execution.submit_limit(...)"
\*   "replace_returned" the method returned without sizing a new order
\*   "replaced"         the new order is registered
\*   "replace_failed"   in the except branch, the submit call having raised
\* The call is the one _update_orders makes: the agent tracks one order, at
\* any of a few prices and sizes, with any of a few tracked inventories, a
\* price improvement of one or two cents, and the book of the step asks for
\* the order to be replaced.  atStart holds
\* the order that is being replaced.  Fills interleave.
ReplaceConfigs ==
  Configs \cup {[budget |-> 10 * Dollar, min_gap |-> 2, price_improvement |-> 2]}
ReplaceOrderPrices == {51 * Cent, 54 * Cent, 56 * Cent}
ReplaceOrderSizes == {5 * Share, 10 * Share}
ReplacePositions == {0, 3 * Share, 20 * Share}

ReplaceSide == IF atStart.buy # 0 THEN "BUY" ELSE "SELL"
ReplaceOld == IF atStart.buy # 0 THEN atStart.buy ELSE atStart.sell
\* new_price as _update_orders computes it for the order being replaced
ReplaceNewPrice ==
  LET st == register_order(state, ReplaceOld, ReplaceSide,
                           exOrders[ReplaceOld].price, exOrders[ReplaceOld].size)
  IN  IF ReplaceSide = "BUY" THEN buy_replace_price(st, book, config)
                             ELSE sell_replace_price(st, book, config)

InitReplace ==
  /\ config \in ReplaceConfigs
  /\ avg_cost_basis = NoneV
  /\ position_synced = TRUE
  /\ position_sync_counter = 0
  /\ pc = "replace"
  /\ exPosition \in InitialPositions
  /\ market \in Markets
  /\ \E side \in {"BUY", "SELL"}, price \in ReplaceOrderPrices,
        size \in ReplaceOrderSizes, position \in ReplacePositions :
       /\ "ok" \in SubmitOutcomes(<<>>, side, size, MaxFaults)
       /\ exOrders = ExSubmit(<<>>, side, price, size)
       /\ atStart = [buy |-> IF side = "BUY" THEN 1 ELSE 0,
                     sell |-> IF side = "SELL" THEN 1 ELSE 0,
                     save_fill |-> "none"]
       /\ ~Crossed(market)
       /\ book = extract_best_prices(get_orderbook(market))
       /\ book.best_bid # 0 /\ book.best_ask # 0
       /\ state = update_market_state(
                    register_order([TraderState0 EXCEPT
                                      !.current_position = position],
                                   1, side, price, size),
                    book.best_bid, book.best_ask, market.min_order_size)
  /\ ReplaceNewPrice # 0
  /\ subs = {}
  /\ applied = <<0>>
  /\ steps = 0
  /\ faults = 0
  /\ retry = NoRetry
  /\ mgr = NoManager

\* Variant of ReplaceCancel: a cancel call that raises is ignored and the
\* method goes on to size and submit the new order.
ReplaceCancelIgnoringRaise ==
  /\ pc = "replace"
  /\ \E c \in CancelOutcomes(exOrders, ReplaceOld, faults) :
       LET r == cancel_and_unregister(state, exOrders, faults, ReplaceOld,
                                      ReplaceSide, c)
       IN  /\ pc' = "replace_size"
           /\ state' = r.state
           /\ exOrders' = r.orders
           /\ faults' = r.faults
  /\ UNCHANGED <<config, retry, mgr, avg_cost_basis, position_synced,
                 position_sync_counter, book, exPosition, market, subs,
                 applied, atStart, steps>>

\* "await self.execution.cancel(old_order_id)" and
\* "self._unregister_order(side)", or the exception of the call
ReplaceCancel ==
  /\ pc = "replace"
  /\ \E c \in CancelOutcomes(exOrders, ReplaceOld, faults) :
       LET r == cancel_and_unregister(state, exOrders, faults, ReplaceOld,
                                      ReplaceSide, c)
       IN  /\ pc' = IF c = "raise" THEN "replace_raised" ELSE "replace_size"
           /\ state' = r.state
           /\ exOrders' = r.orders
           /\ faults' = r.faults
  /\ UNCHANGED <<config, retry, mgr, avg_cost_basis, position_synced,
                 position_sync_counter, book, exPosition, market, subs,
                 applied, atStart, steps>>

\* Step 2 of the method: the size of the new order, or the return
ReplaceOrderSize ==
  IF ReplaceSide = "BUY" THEN buy_replace_size(state, config, book.best_bid)
                         ELSE sell_replace_size(state)
ReplaceSize ==
  /\ pc = "replace_size"
  /\ pc' = IF ReplaceOrderSize > 0 THEN "replace_submit" ELSE "replace_returned"
  /\ UNCHANGED <<config, retry, mgr, agentVars, book, exchangeVars, subs, applied, atStart,
                 steps, faults>>

\* Step 3 of the method: submit_limit and _register_order, or the exception
ReplaceSubmit ==
  /\ pc = "replace_submit"
  /\ submit(ReplaceSide, "replace", ReplaceNewPrice, ReplaceOrderSize, state,
            IF ReplaceSide = "BUY"
            THEN available_budget(state, config, book.best_bid) ELSE 0,
            exOrders, faults)
  /\ pc' = IF Len(exOrders') > Len(exOrders) THEN "replaced"
                                             ELSE "replace_failed"
  /\ UNCHANGED <<config, retry, mgr, avg_cost_basis, position_sync_counter, book,
                 exPosition, market, atStart, steps>>

NextReplace ==
  \/ ReplaceCancel
  \/ ReplaceSize
  \/ ReplaceSubmit
  \/ FillAll

SpecReplace == InitReplace /\ [][NextReplace]_vars

\* ------------------------------------------------- fifth specification
\* PolymarketService._retry_operation, one call of it, cut at its awaits:
\* the awaited operation and the awaited sleep.  Delays are in tenths of a
\* second.  ExecutionConfig.max_retries ranges over 0..MaxRetries and the
\* operation returns one of RetryResults or raises one of RetryErrors on
\* every attempt.
MaxRetries == 4
RetryDelays == {1, 5, 20}
RetryResults == {"r1", "r2"}
RetryErrors == {"e1"}
OperationOutcomes ==
  [ok : {TRUE}, value : RetryResults] \cup [ok : {FALSE}, value : RetryErrors]

InitRetry ==
  /\ config = CHOOSE c \in Configs : TRUE
  /\ state = TraderState0
  /\ avg_cost_basis = NoneV
  /\ position_synced = FALSE
  /\ position_sync_counter = 0
  /\ pc = "retry_call"
  /\ book = NoBook
  /\ exPosition = 0
  /\ exOrders = <<>>
  /\ market = CHOOSE m \in Markets : TRUE
  /\ subs = {}
  /\ applied = <<>>
  /\ atStart = [buy |-> 0, sell |-> 0, save_fill |-> "none"]
  /\ steps = 0
  /\ faults = 0
  /\ \E n \in 0..MaxRetries, d \in RetryDelays :
       retry = [NoRetry EXCEPT !.max_retries = n, !.retry_delay_seconds = d]
  /\ mgr = NoManager

\* Variant of RetryDelay: the same delay before every further attempt.
RetryDelayFixed(r) == r.retry_delay_seconds

\* delay = retry_delay_seconds * (2 ** attempt)
RetryDelay(r) == r.retry_delay_seconds * 2 ^ r.attempt

\* One pass of the loop body up to its next await or its return: the
\* operation is awaited; its result is returned, or its exception is kept
\* and, on the last pass, the loop goes on without sleeping.
RetryCall ==
  /\ pc = "retry_call"
  /\ retry.attempt < retry.max_retries
  /\ \E outcome \in OperationOutcomes :
       IF outcome.ok
       THEN /\ retry' = [retry EXCEPT !.calls = Append(@, outcome),
                                      !.returned = outcome.value]
            /\ pc' = "retry_returned"
       ELSE IF retry.attempt < retry.max_retries - 1
       THEN /\ retry' = [retry EXCEPT !.calls = Append(@, outcome),
                                      !.last_exception = outcome.value]
            /\ pc' = "retry_sleep"
       ELSE /\ retry' = [retry EXCEPT !.calls = Append(@, outcome),
                                      !.last_exception = outcome.value,
                                      !.attempt = @ + 1]
            /\ pc' = "retry_call"
  /\ UNCHANGED <<config, mgr, agentVars, book, exchangeVars, subs, applied,
                 atStart, steps, faults>>

\* await asyncio.sleep(delay), then the next pass of the loop
RetrySleep ==
  /\ pc = "retry_sleep"
  /\ retry' = [retry EXCEPT !.slept = Append(@, RetryDelay(retry)),
                            !.attempt = @ + 1]
  /\ pc' = "retry_call"
  /\ UNCHANGED <<config, mgr, agentVars, book, exchangeVars, subs, applied,
                 atStart, steps, faults>>

\* The loop is exhausted: raise PolymarketServiceError.
RetryRaise ==
  /\ pc = "retry_call"
  /\ retry.attempt >= retry.max_retries
  /\ retry' = [retry EXCEPT !.raised = "PolymarketServiceError"]
  /\ pc' = "retry_raised"
  /\ UNCHANGED <<config, mgr, agentVars, book, exchangeVars, subs, applied,
                 atStart, steps, faults>>

NextRetry ==
  \/ RetryCall
  \/ RetrySleep
  \/ RetryRaise

SpecRetry == InitRetry /\ [][NextRetry]_vars

\* The awaited operation and the awaited sleep complete, and the event loop
\* then resumes the coroutine: a step that stays possible is taken.
FairSpecRetry == SpecRetry /\ WF_vars(NextRetry)

\* ------------------------------------------------- sixth specification
\* TraderManager (manager.py): the roster, the run loop cut at its awaits,
\* roster reconciliation against the store, the global risk check and
\* shutdown.  An agent's step is one action here: it ends by returning,
\* after its execution calls returned or one of them raised, and it leaves
\* the agent with one of TraderViews.  The store is written by the frontend;
\* the manager reads it only while reconciling, so the writes are taken just
\* before a reconciliation.  The loop runs at most MaxTicks ticks.
MaxTicks == 2
AgentIds == {"m1", "m2"}
StoreStatuses == {"active", "paused", "deleted"}

\* The fields of TraderState that the manager reads, as a step can leave
\* them: a fresh agent; a resting BUY; inventory with both orders resting;
\* flat again after a losing round trip.  An order id of 1 stands for the
\* agent's tracked order of that side, 0 for None.
TraderViews ==
  { [current_position |-> 0, total_pnl |-> 0, last_best_bid |-> 0,
     active_buy_order_id |-> 0, active_sell_order_id |-> 0],
    [current_position |-> 0, total_pnl |-> 0, last_best_bid |-> 50 * Cent,
     active_buy_order_id |-> 1, active_sell_order_id |-> 0],
    [current_position |-> 20 * Share, total_pnl |-> 0,
     last_best_bid |-> 50 * Cent,
     active_buy_order_id |-> 1, active_sell_order_id |-> 1],
    [current_position |-> 0, total_pnl |-> 0 - 5 * Dollar,
     last_best_bid |-> 50 * Cent,
     active_buy_order_id |-> 0, active_sell_order_id |-> 0] }

\* Trader.__init__; running counts the agent's steps in progress, stepped
\* the steps started for it in the tick, outcome and result say how its
\* step of the tick went and how it ended.
NewTrader ==
  [is_active |-> TRUE, is_paused |-> FALSE,
   state |-> [current_position |-> TraderState0.current_position,
              total_pnl |-> TraderState0.total_pnl,
              last_best_bid |-> TraderState0.last_best_bid,
              active_buy_order_id |-> TraderState0.active_buy_order_id,
              active_sell_order_id |-> TraderState0.active_sell_order_id],
   running |-> 0, stepped |-> 0, outcome |-> "none", result |-> "none"]

\* The attributes of a TraderState object.
TraderStateFields == DOMAIN TraderState0

\* ManagerConfig: the exposure cap and the P&L floor as configured numbers;
\* the first has limits that no roster of the model breaches.
ManagerConfigs ==
  { [max_total_exposure |-> 10000, max_total_pnl_loss |-> 0 - 100,
     enable_emergency_shutdown |-> TRUE],
    [max_total_exposure |-> 15, max_total_pnl_loss |-> 0 - 100,
     enable_emergency_shutdown |-> TRUE],
    [max_total_exposure |-> 10000, max_total_pnl_loss |-> 0 - 3,
     enable_emergency_shutdown |-> TRUE],
    [max_total_exposure |-> 15, max_total_pnl_loss |-> 0 - 3,
     enable_emergency_shutdown |-> FALSE] }

\* get_status: position_value = abs(current_position * (last_best_bid or 0))
position_value(st) == Abs(st.current_position * st.last_best_bid)

\* The resting orders an agent tracks, as (agent, side) pairs.
TrackedOrders(a, tr) ==
  {<<a, "BUY">> : x \in {1} \cap {tr.state.active_buy_order_id}} \cup
  {<<a, "SELL">> : x \in {1} \cap {tr.state.active_sell_order_id}}

\* _monitor_risk: total_exposure += abs(status["position"])
total_exposure(traders) ==
  LET RECURSIVE Sum(_)
      Sum(S) == IF S = {} THEN 0
                ELSE LET a == CHOOSE x \in S : TRUE
                     IN  Abs(traders[a].state.current_position) + Sum(S \ {a})
  IN  Sum(DOMAIN traders)

\* _monitor_risk: total_pnl += status["total_pnl"]
total_pnl(traders) ==
  LET RECURSIVE Sum(_)
      Sum(S) == IF S = {} THEN 0
                ELSE LET a == CHOOSE x \in S : TRUE
                     IN  traders[a].state.total_pnl + Sum(S \ {a})
  IN  Sum(DOMAIN traders)

\* Variant of monitor_risk: a breach ends the loop whatever the
\* emergency-shutdown setting.
monitor_risk_always(traders, cfg) ==
  /\ ~(total_exposure(traders) > cfg.max_total_exposure * Share)
  /\ ~(total_pnl(traders) < cfg.max_total_pnl_loss * Dollar)

\* _monitor_risk: TRUE when it is safe to continue.
monitor_risk(traders, cfg) ==
  IF /\ total_exposure(traders) > cfg.max_total_exposure * Share
     /\ cfg.enable_emergency_shutdown
  THEN FALSE
  ELSE IF /\ total_pnl(traders) < cfg.max_total_pnl_loss * Dollar
          /\ cfg.enable_emergency_shutdown
  THEN FALSE
  ELSE TRUE

\* No reconciliation has just run.
NoRows == [answered |-> FALSE, rows |-> {}]

InitManager ==
  /\ config = CHOOSE c \in Configs : TRUE
  /\ state = TraderState0
  /\ avg_cost_basis = NoneV
  /\ position_synced = FALSE
  /\ position_sync_counter = 0
  /\ pc = "mgr_risk"
  /\ book = NoBook
  /\ exPosition = 0
  /\ exOrders = <<>>
  /\ market = CHOOSE m \in Markets : TRUE
  /\ subs = {}
  /\ applied = <<>>
  /\ atStart = [buy |-> 0, sell |-> 0, save_fill |-> "none"]
  /\ steps = 0
  /\ faults = 0
  /\ retry = NoRetry
  /\ \E cfg \in ManagerConfigs, store \in [AgentIds -> StoreStatuses] :
       mgr = [config |-> cfg,
              traders |-> [a \in {x \in AgentIds : store[x] = "active"}
                             |-> NewTrader],
              is_running |-> TRUE,
              last_supabase_sync |-> 0,
              store |-> store,
              db_traders |-> NoRows,
              ticks |-> 0,
              exit |-> "none",
              removed |-> {},
              cancels |-> {},
              raised |-> "None"]

mgrFrame ==
  <<config, retry, agentVars, book, exchangeVars, subs, applied, atStart,
    steps, faults>>

\* Variant of MonitorRisk: the loop does not test is_running.
MonitorRiskWhileTrue ==
  /\ pc = "mgr_risk"
  /\ mgr.ticks < MaxTicks
  /\ IF monitor_risk(mgr.traders, mgr.config)
     THEN /\ mgr' = [mgr EXCEPT !.ticks = @ + 1]
          /\ pc' = "mgr_sync"
     ELSE /\ mgr' = [mgr EXCEPT !.ticks = @ + 1, !.exit = "risk"]
          /\ pc' = "mgr_shutdown"
  /\ UNCHANGED mgrFrame

\* run: the loop condition and `if not await self._monitor_risk(): break`
MonitorRisk ==
  /\ pc = "mgr_risk"
  /\ mgr.is_running
  /\ mgr.ticks < MaxTicks
  /\ IF monitor_risk(mgr.traders, mgr.config)
     THEN /\ mgr' = [mgr EXCEPT !.ticks = @ + 1]
          /\ pc' = "mgr_sync"
     ELSE /\ mgr' = [mgr EXCEPT !.ticks = @ + 1, !.exit = "risk"]
          /\ pc' = "mgr_shutdown"
  /\ UNCHANGED mgrFrame

\* The frontend writes an agent's status in the store.
StoreChange ==
  /\ pc = "mgr_sync"
  /\ \E a \in AgentIds, st \in StoreStatuses :
       /\ mgr.store[a] # st
       /\ mgr' = [mgr EXCEPT !.store[a] = st]
  /\ UNCHANGED <<pc, mgrFrame>>

\* remove_trader for each agent of gone: trader.stop(), del self.traders[..]
remove_traders(traders, gone) ==
  [a \in DOMAIN traders \ gone |-> traders[a]]

\* Variant of sync_traders: the statuses of the store are not applied.
sync_traders_no_status(traders, rows, status) ==
  LET added == [a \in DOMAIN traders \cup rows |->
                  IF a \in DOMAIN traders THEN traders[a] ELSE NewTrader]
      gone == {a \in DOMAIN added : a \notin rows \/ status[a] = "deleted"}
  IN  remove_traders(added, gone)

\* _sync_traders_from_supabase with db_traders = rows and the answers
\* status[a] of get_trader_status ("None" when the query failed).
sync_traders(traders, rows, status) ==
  LET added == [a \in DOMAIN traders \cup rows |->
                  IF a \in DOMAIN traders THEN traders[a] ELSE NewTrader]
      gone == {a \in DOMAIN added : a \notin rows \/ status[a] = "deleted"}
      kept == remove_traders(added, gone)
  IN  [a \in DOMAIN kept |->
         IF a \in rows /\ status[a] = "paused" /\ ~kept[a].is_paused
         THEN [kept[a] EXCEPT !.is_paused = TRUE]
         ELSE IF a \in rows /\ status[a] = "active" /\ kept[a].is_paused
         THEN [kept[a] EXCEPT !.is_paused = FALSE]
         ELSE kept[a]]

\* run: the periodic reconciliation.  The interval has not elapsed (never
\* so on the first tick), or load_all_traders returns rows: the active and
\* paused agents of the store without those whose row did not resolve, or
\* an empty list when the query failed.
SyncTraders ==
  /\ pc = "mgr_sync"
  /\ \/ /\ mgr.last_supabase_sync # 0
        /\ mgr' = [mgr EXCEPT !.db_traders = NoRows]
     \/ \E loaded \in BOOLEAN, answered \in BOOLEAN :
        \E rows \in SUBSET {a \in AgentIds :
                             loaded /\ mgr.store[a] \in {"active", "paused"}} :
          LET status == [a \in AgentIds |->
                           IF answered THEN mgr.store[a] ELSE "None"]
              synced == sync_traders(mgr.traders, rows, status)
              gone == DOMAIN mgr.traders \ DOMAIN synced
          IN  mgr' = [mgr EXCEPT
                        !.traders = synced,
                        !.removed = @ \cup UNION {TrackedOrders(a, mgr.traders[a])
                                                    : a \in gone},
                        !.last_supabase_sync = 1,
                        !.db_traders = [answered |-> loaded /\ answered,
                                        rows |-> rows]]
  /\ pc' = "mgr_fanout"
  /\ UNCHANGED mgrFrame

\* tasks = [trader.step() for trader in self.traders.values()
\*          if trader.is_active]
StepsToStart(tr) == IF tr.is_active THEN 1 ELSE 0

\* run: the fan-out of the tick's steps
FanOut ==
  /\ pc = "mgr_fanout"
  /\ mgr' = [mgr EXCEPT
               !.db_traders = NoRows,
               !.traders = [a \in DOMAIN @ |->
                              [@[a] EXCEPT
                                 !.running = @ + StepsToStart(mgr.traders[a]),
                                 !.stepped = @ + StepsToStart(mgr.traders[a])]]]
  /\ pc' = IF \E a \in DOMAIN mgr.traders : mgr.traders[a].is_active
           THEN "mgr_gather" ELSE "mgr_status"
  /\ UNCHANGED mgrFrame

\* How an execution call of a step can go: all return, or one raises the
\* typed execution error, or one raises another exception.
StepOutcomes == {"ok", "ExecutionError", "Exception"}

\* Variant of StepEnding: only the typed execution error is caught.
StepEndingTypedOnly(outcome) ==
  IF outcome = "Exception" THEN "raised" ELSE "returned"

\* Trader.step: `except ExecutionError` and `except Exception` both log and
\* fall off the end of the method.
StepEnding(outcome) ==
  IF outcome = "ExecutionError" THEN "returned"
  ELSE IF outcome = "Exception" THEN "returned"
  ELSE "returned"

\* Variant of StepSkips: a paused agent's step goes on.
StepSkipsInactiveOnly(tr) == ~tr.is_active

\* Trader.step: `if not self.is_active or self.is_paused: return`
StepSkips(tr) == ~tr.is_active \/ tr.is_paused

\* Trader.step of agent a, started by the fan-out
TraderStep(a) ==
  /\ a \in DOMAIN mgr.traders
  /\ mgr.traders[a].running > 0
  /\ IF StepSkips(mgr.traders[a])
     THEN mgr' = [mgr EXCEPT !.traders[a].running = @ - 1,
                             !.traders[a].outcome = "skipped",
                             !.traders[a].result = "returned"]
     ELSE \E view \in TraderViews, outcome \in StepOutcomes :
            mgr' = [mgr EXCEPT !.traders[a].running = @ - 1,
                               !.traders[a].state = view,
                               !.traders[a].outcome = outcome,
                               !.traders[a].result = StepEnding(outcome)]
  /\ UNCHANGED <<pc, mgrFrame>>

\* Variant of GatherDone: the gather also returns as soon as one step has
\* failed.
GatherDoneOrFailed(traders) ==
  \/ \A a \in DOMAIN traders : traders[a].running = 0
  \/ \E a \in DOMAIN traders :
       traders[a].outcome \in {"ExecutionError", "Exception"}

\* Variant of GatherDone: the started steps are not awaited.
GatherNotAwaited(traders) == TRUE

\* Variant of GatherDone: the gather returns as soon as one step has ended.
GatherFirstDone(traders) ==
  \E a \in DOMAIN traders : traders[a].result # "none"

\* await asyncio.gather(*tasks, return_exceptions=True) returns when every
\* started step has ended, by returning or by raising.
GatherDone(traders) ==
  \A a \in DOMAIN traders : traders[a].running = 0

\* run: the gather returns
Gather ==
  /\ pc = "mgr_gather"
  /\ GatherDone(mgr.traders)
  /\ pc' = "mgr_status"
  /\ UNCHANGED <<mgr, mgrFrame>>

\* run: _print_status, which changes no state that the loop reads
PrintStatus ==
  /\ pc = "mgr_status"
  /\ mgr' = [mgr EXCEPT
               !.traders = [a \in DOMAIN @ |->
                              [@[a] EXCEPT !.stepped = 0, !.outcome = "none",
                                           !.result = "none"]]]
  /\ pc' = "mgr_sleep"
  /\ UNCHANGED mgrFrame

\* run: await asyncio.sleep(poll_interval_seconds) returns
Sleep ==
  /\ pc = "mgr_sleep"
  /\ pc' = "mgr_risk"
  /\ UNCHANGED <<mgr, mgrFrame>>

\* run: a keyboard interrupt ends the sleep; `finally` calls shutdown
Interrupt ==
  /\ pc = "mgr_sleep"
  /\ mgr' = [mgr EXCEPT !.exit = "interrupt"]
  /\ pc' = "mgr_shutdown"
  /\ UNCHANGED mgrFrame

\* pause_trader
PauseTrader ==
  /\ pc \in {"mgr_sync", "mgr_gather", "mgr_sleep"}
  /\ \E a \in DOMAIN mgr.traders :
       /\ ~mgr.traders[a].is_paused
       /\ mgr' = [mgr EXCEPT !.traders[a].is_paused = TRUE]
  /\ UNCHANGED <<pc, mgrFrame>>

\* resume_trader
ResumeTrader ==
  /\ pc \in {"mgr_sync", "mgr_gather", "mgr_sleep"}
  /\ \E a \in DOMAIN mgr.traders :
       /\ mgr.traders[a].is_paused
       /\ mgr' = [mgr EXCEPT !.traders[a].is_paused = FALSE]
  /\ UNCHANGED <<pc, mgrFrame>>

\* shutdown: is_running = False, every roster agent is stopped, then the
\* cancel loop; `trader.state.active_order_ids` is evaluated for the first
\* agent of the roster and raises AttributeError when TraderState has no
\* such attribute.
Shutdown ==
  /\ pc = "mgr_shutdown"
  /\ LET stopped == [a \in DOMAIN mgr.traders |->
                       [mgr.traders[a] EXCEPT !.is_active = FALSE]]
     IN  IF DOMAIN mgr.traders = {} \/ "active_order_ids" \in TraderStateFields
         THEN /\ mgr' = [mgr EXCEPT
                           !.is_running = FALSE,
                           !.traders = stopped,
                           !.cancels = @ \cup
                              UNION {TrackedOrders(a, mgr.traders[a])
                                       : a \in DOMAIN mgr.traders}]
              /\ pc' = "mgr_done"
         ELSE /\ mgr' = [mgr EXCEPT !.is_running = FALSE,
                                    !.traders = stopped,
                                    !.raised = "AttributeError"]
              /\ pc' = "mgr_raised"
  /\ UNCHANGED mgrFrame

NextManager ==
  \/ MonitorRisk
  \/ StoreChange
  \/ SyncTraders
  \/ FanOut
  \/ \E a \in AgentIds : TraderStep(a)
  \/ Gather
  \/ PrintStatus
  \/ Sleep
  \/ Interrupt
  \/ PauseTrader
  \/ ResumeTrader
  \/ Shutdown

SpecManager == InitManager /\ [][NextManager]_vars

\* The event loop runs every started step to its end and resumes the run
\* coroutine when what it awaits is done.
FairSpecManager ==
  /\ SpecManager
  /\ \A a \in AgentIds : WF_vars(TraderStep(a))
  /\ WF_vars(Gather)
  /\ WF_vars(PrintStatus)

\* ----------------------------------------------- the supervisor, stopped
\* A seventh specification: the sixth with a caller of stop().  Nothing in
\* the repository calls stop(); the caller is another task or a signal
\* handler, which runs while run() is suspended at one of its awaits.  The
\* run starts with a roster that is active in the store, under the first
\* two of ManagerConfigs.
StopConfigs ==
  {c \in ManagerConfigs : c.max_total_pnl_loss = 0 - 100}
InitStop ==
  /\ InitManager
  /\ mgr.config \in StopConfigs
  /\ \A a \in AgentIds : mgr.store[a] # "deleted"

\* TraderManager.stop
Stop ==
  /\ pc \in {"mgr_sync", "mgr_gather", "mgr_sleep"}
  /\ mgr.is_running
  /\ mgr' = [mgr EXCEPT !.is_running = FALSE]
  /\ UNCHANGED <<pc, mgrFrame>>

\* run: `while self.is_running` is false, the loop ends and the finally
\* clause calls shutdown.
LoopExit ==
  /\ pc = "mgr_risk"
  /\ ~mgr.is_running
  /\ mgr' = [mgr EXCEPT !.exit = "stopped"]
  /\ pc' = "mgr_shutdown"
  /\ UNCHANGED mgrFrame

NextStop ==
  \/ NextManager
  \/ Stop
  \/ LoopExit

SpecStop == InitStop /\ [][NextStop]_vars

\* The event loop resumes run() when what it awaits is done: the store
\* answers or fails, the started steps end, and the sleep of the poll
\* interval returns.
FairSpecStop ==
  /\ SpecStop
  /\ \A a \in AgentIds : WF_vars(TraderStep(a))
  /\ WF_vars(SyncTraders)
  /\ WF_vars(FanOut)
  /\ WF_vars(Gather)
  /\ WF_vars(PrintStatus)
  /\ WF_vars(Sleep)
  /\ WF_vars(LoopExit)
  /\ WF_vars(Shutdown)

\* ------------------------------------------------ the agent in a still book
\* An eighth specification: the agent steps for ever while the other
\* participants' book stays as it is, nobody trades with the agent and every
\* exchange call succeeds.  steps is not counted.  So that states repeat,
\* the record of the exchange drops the agent's closed orders once none of
\* its orders is open or tracked; an order number is then used again.
InitQuotes ==
  /\ config \in Configs
  /\ state = TraderState0
  /\ avg_cost_basis = NoneV
  /\ position_synced = FALSE
  /\ position_sync_counter = 0
  /\ pc = "idle"
  /\ book = NoBook
  /\ exPosition \in InitialPositions
  /\ exOrders = <<>>
  /\ market \in Markets
  /\ subs = {}
  /\ applied = <<>>
  /\ atStart = [buy |-> 0, sell |-> 0, save_fill |-> "none"]
  /\ steps = 0
  /\ faults = MaxFaults
  /\ retry = NoRetry
  /\ mgr = NoManager

Forgettable ==
  /\ exOrders # <<>>
  /\ OpenIds("BUY") = {} /\ OpenIds("SELL") = {}
  /\ state.active_buy_order_id = 0 /\ state.active_sell_order_id = 0
Forget ==
  /\ pc = "idle"
  /\ Forgettable
  /\ exOrders' = <<>>
  /\ applied' = <<>>
  /\ UNCHANGED <<config, retry, mgr, agentVars, pc, book, exPosition, market, subs,
                 atStart, steps, faults>>

\* Trader.step up to and including _check_order_status
QuoteStepStart ==
  /\ pc = "idle"
  /\ ~Forgettable
  /\ pc' = "fetch"
  /\ subs' = {}
  /\ atStart' = [buy |-> state.active_buy_order_id,
                 sell |-> state.active_sell_order_id,
                 save_fill |-> "none"]
  /\ check_order_status
  /\ UNCHANGED <<config, retry, mgr, position_synced, position_sync_counter, book,
                 exchangeVars, steps>>

\* _fetch_orderbook: the others' orders are those of the step before.
FetchStillOrderbook ==
  /\ FetchOrderbook
  /\ market' = market

NextQuotes ==
  \/ Forget
  \/ QuoteStepStart
  \/ FetchStillOrderbook
  \/ UpdatePosition
  \/ UpdateBuyOrder
  \/ UpdateSellOrder
  \/ CheckAndCancelInvalidOrders
  \/ TryPlaceBuyOrder
  \/ TryPlaceSellOrder

SpecQuotes == InitQuotes /\ [][NextQuotes]_vars

\* The supervisor calls step on every tick, and a step whose calls return
\* runs to its end.
FairSpecQuotes == SpecQuotes /\ WF_vars(NextQuotes)

\* ------------------------------------------------------------ properties
SellSubs == {s \in subs : s.side = "SELL"}
BuySubs == {s \in subs : s.side = "BUY"}
\* The step that just ended ran with an order book.
StepDone == pc = "idle" /\ steps > 0 /\ book # NoBook
\* (best_ask - best_bid) - price_improvement of a step's book
EffectiveSpread(spread) == spread - price_improvement_decimal(config)

\* Tracked inventories that are <= 0.
NonPositivePositions == {0, 0 - SIZE_TICK, 0 - 10 * Share}

\* C1: a step in which the tracked inventory is <= 0 submits no SELL order:
\* every SELL submit_limit call, by placement or by replacement, is made
\* with a tracked inventory above 0, a step that ends with a tracked
\* inventory <= 0 has made none, and in every reachable state of the agent
\* both the placement and the replacement size no SELL order (size 0) once
\* the tracked inventory is set to a value <= 0.
C1_NoSellWithoutInventory ==
  /\ \A s \in SellSubs : s.pos > 0
  /\ (StepDone /\ state.current_position <= 0) => SellSubs = {}
  /\ \A p \in NonPositivePositions :
       /\ sell_order_size([state EXCEPT !.current_position = p]) = 0
       /\ sell_replace_size([state EXCEPT !.current_position = p]) = 0
\* A step has run through the SELL placement with a tracked inventory <= 0.
C1_Witness ==
  /\ StepDone
  /\ state.current_position <= 0
  /\ state.active_sell_order_id = 0
  /\ SellSubs = {}

C3_RestingSellWithinInventory ==
  (pc = "idle" /\ state.active_sell_order_id # 0)
    => state.active_sell_order_size <= state.current_position - SAFETY_BUFFER

\* C4: the tracked inventory is never negative (the exchange of this model
\* reports no negative position and no filled size above the order's size).
C4_InventoryNonNegative ==
  state.current_position >= 0

\* C5: under every interleaving of fills with the step, no SELL order is
\* submitted with a size above the exchange's inventory at the submission.
C5_NoSellBeyondExchangeInventory ==
  \A s \in SellSubs : s.size <= s.expos

\* C6: a step whose book has an effective spread below min_gap submits no
\* BUY order, and a BUY order tracked when the step began is no longer
\* tracked when it ends.
C6_NoBuyBelowMinGap ==
  /\ \A s \in BuySubs : EffectiveSpread(s.spread) >= min_gap_decimal(config)
  /\ (/\ StepDone
      /\ EffectiveSpread(book.best_ask - book.best_bid) < min_gap_decimal(config)
      /\ atStart.buy # 0)
       => state.active_buy_order_id = 0

\* C7: every BUY order submitted, by placement or by replacement, costs
\* (price x size) at most the available capacity at the submission: the
\* budget minus the value of the tracked inventory at the best bid.
C7_BuyCostWithinCapacity ==
  \A s \in BuySubs : s.price * s.size <= s.avail

\* C8: in a step that began without a tracked BUY order, whose book has an
\* effective spread of at least min_gap and whose available budget pays for
\* the minimum order size, the agent submits exactly one BUY order, at
\* best_bid + price_improvement, and tracks it as its resting BUY order.
\* (Stated right after the BUY placement of the step.)
C8_Pre ==
  /\ pc = "place_sell"
  /\ atStart.buy = 0
  /\ EffectiveSpread(book.best_ask - book.best_bid) >= min_gap_decimal(config)
  /\ available_budget(state, config, book.best_bid)
       >= MinOrderSize(state) * (book.best_bid + price_improvement_decimal(config))
C8_OneBuySubmitted ==
  /\ Cardinality(BuySubs) = 1
  /\ \A s \in BuySubs :
       /\ s.via = "place"
       /\ s.price = book.best_bid + price_improvement_decimal(config)
       /\ s.size >= MinOrderSize(state)
C8_BuyPlacedAndTracked ==
  C8_Pre =>
    /\ C8_OneBuySubmitted
    /\ state.active_buy_order_id # 0
    /\ state.active_buy_order_price
         = book.best_bid + price_improvement_decimal(config)
\* C8 as it holds: the order is tracked when the exchange accepts the
\* submission, and no BUY order is tracked when the submission fails.
C8_BuyPlacedTrackedIfAccepted ==
  C8_Pre =>
    /\ C8_OneBuySubmitted
    /\ \A s \in BuySubs :
         IF s.outcome = "ok"
         THEN /\ state.active_buy_order_id # 0
              /\ state.active_buy_order_price = s.price
              /\ state.active_buy_order_size = s.size
         ELSE state.active_buy_order_id = 0
\* The example: best bid 0.50, best ask 0.55, a BUY order at 0.51 accepted
\* and tracked.
C8_Witness ==
  /\ C8_Pre
  /\ book.best_bid = 50 * Cent
  /\ book.best_ask = 55 * Cent
  /\ \E s \in BuySubs : s.outcome = "ok" /\ s.price = 51 * Cent
  /\ state.active_buy_order_price = 51 * Cent

\* C9: fill reconciliation is idempotent.  A status check never applies the
\* FILLED status of an order a second time, the order it has been applied
\* for is no longer tracked, and a status check with no tracked order
\* changes neither the tracked inventory, the cost basis, the P&L nor the
\* trade count.
C9_FillAppliedOnce ==
  [][ (pc = "idle" /\ pc' = "fetch") =>
        /\ \A i \in DOMAIN applied :
             applied[i] >= 1 =>
               /\ applied'[i] = applied[i]
               /\ state.active_buy_order_id # i
               /\ state.active_sell_order_id # i
        /\ (state.active_buy_order_id = 0 /\ state.active_sell_order_id = 0)
             => (state' = state /\ avg_cost_basis' = avg_cost_basis) ]_vars
\* A status check has just run while the exchange reports FILLED an order
\* whose fill was applied in an earlier step.
C9_Witness ==
  /\ pc = "fetch"
  /\ \E i \in DOMAIN applied :
       /\ applied[i] = 1
       /\ exOrders[i].status = "FILLED"
       /\ atStart.buy # i
       /\ atStart.sell # i

\* C10: from flat and no cost basis, a BUY of s at p reconciled as filled,
\* then a SELL of the same s at q reconciled as filled, leave a P&L of
\* (q - p) x s, a tracked inventory of 0 and no cost basis.
C10_RoundTripPnl ==
  (/\ Len(exOrders) >= 2
   /\ exOrders[1].side = "BUY"
   /\ exOrders[2].side = "SELL"
   /\ exOrders[1].size = exOrders[2].size
   /\ applied[1] = 1
   /\ applied[2] = 1
   /\ \A i \in 3..Len(applied) : applied[i] = 0)
    => /\ state.total_pnl
            = (exOrders[2].price - exOrders[1].price) * exOrders[1].size
       /\ state.current_position = 0
       /\ avg_cost_basis = NoneV
\* The example: buy 10 @ 0.40, sell 10 @ 0.45, P&L 0.50.
C10_Witness ==
  /\ Len(exOrders) = 2
  /\ exOrders[1] = [side |-> "BUY", price |-> 40 * Cent, size |-> 10 * Share,
                    filled |-> 10 * Share, status |-> "FILLED"]
  /\ exOrders[2] = [side |-> "SELL", price |-> 45 * Cent, size |-> 10 * Share,
                    filled |-> 10 * Share, status |-> "FILLED"]
  /\ applied = <<1, 1>>
  /\ state.total_pnl = Dollar \div 2
  /\ state.current_position = 0
  /\ avg_cost_basis = NoneV

\* The tracked BUY order's FILLED status was applied by the status check
\* that is being taken, and the SELL order's was not.
BuyFillDetected ==
  /\ state.active_buy_order_id # 0
  /\ applied'[state.active_buy_order_id] = applied[state.active_buy_order_id] + 1
  /\ state.active_sell_order_id # 0
       => applied'[state.active_sell_order_id]
            = applied[state.active_sell_order_id]
\* (c x q + p x s) / (q + s), c taken as 0 where there is no cost basis
WeightedBasis(acb, q, p, s) ==
  ((IF acb = NoneV THEN 0 ELSE acb[1]) * q + p * s) \div (q + s)
BuyFillCounted ==
  /\ state'.current_position
       = state.current_position + exOrders[state.active_buy_order_id].filled
  /\ state'.active_buy_order_id = 0
  /\ state'.total_trades = state.total_trades + 1

\* C11: a status check that detects the tracked BUY order of size s at price
\* p as filled, with tracked inventory q and cost basis c, sets the inventory
\* to q + s and the cost basis to (c x q + p x s) / (q + s), untracks the
\* order and adds one to the trade count, whatever q is (an inventory with
\* no cost basis counts with c = 0).
C11_BuyFillWeightedBasis ==
  [][ BuyFillDetected =>
        /\ BuyFillCounted
        /\ avg_cost_basis'
             = Some(WeightedBasis(avg_cost_basis, state.current_position,
                                  state.active_buy_order_price,
                                  exOrders[state.active_buy_order_id].filled)) ]_vars
\* C11 as it holds: the weighted average where a cost basis exists (and
\* q + s is not 0), the fill price where none exists.
C11_BuyFillBasis ==
  [][ (/\ BuyFillDetected
       /\ avg_cost_basis # NoneV
             => state.current_position
                  + exOrders[state.active_buy_order_id].filled # 0) =>
        /\ BuyFillCounted
        /\ avg_cost_basis'
             = IF avg_cost_basis = NoneV
               THEN Some(state.active_buy_order_price)
               ELSE Some(WeightedBasis(avg_cost_basis, state.current_position,
                                       state.active_buy_order_price,
                                       exOrders[state.active_buy_order_id].filled)) ]_vars
\* Two BUY orders at different prices were filled and reconciled on top of
\* an inventory that the position sync had set; the cost basis is the
\* weighted average of the second reconciliation.
C11_Witness ==
  /\ Len(exOrders) = 2
  /\ exOrders[1].side = "BUY" /\ exOrders[2].side = "BUY"
  /\ exOrders[1].price # exOrders[2].price
  /\ applied = <<1, 1>>
  /\ state.current_position = 20 * Share + exOrders[1].size + exOrders[2].size
  /\ avg_cost_basis
       = Some((exOrders[1].price * (20 * Share + exOrders[1].size)
                 + exOrders[2].price * exOrders[2].size)
                \div state.current_position)

\* What the exchange reports of a tracked order (0: none is tracked).
Ended(order_id) ==
  order_id # 0 /\ exOrders[order_id].status \in EndStatuses
OpenOrNone(order_id) ==
  order_id = 0 \/ exOrders[order_id].status = "OPEN"
Untracked(st, side) ==
  IF side = "BUY"
  THEN st.active_buy_order_id = 0 /\ st.active_buy_order_price = 0
         /\ st.active_buy_order_size = 0
  ELSE st.active_sell_order_id = 0 /\ st.active_sell_order_price = 0
         /\ st.active_sell_order_size = 0
Tracking(st, side) ==
  IF side = "BUY"
  THEN <<st.active_buy_order_id, st.active_buy_order_price,
         st.active_buy_order_size>>
  ELSE <<st.active_sell_order_id, st.active_sell_order_price,
         st.active_sell_order_size>>
Books(st) == <<st.current_position, st.total_pnl, st.total_trades>>

\* C12: a status check finding a tracked order (BUY or SELL) CANCELLED or
\* REJECTED untracks that order; when the other side has no fill to apply,
\* the check leaves the tracked inventory, the cost basis, the P&L and the
\* trade count as they were, and an open (or absent) order of the other
\* side stays tracked as it was.
C12_EndedOrderCleared ==
  [][ ReconcileFills =>
        LET b == state.active_buy_order_id
            a == state.active_sell_order_id
        IN  /\ Ended(b) => Untracked(state', "BUY")
            /\ Ended(a) => Untracked(state', "SELL")
            /\ ((Ended(b) /\ (OpenOrNone(a) \/ Ended(a)))
                  \/ (Ended(a) /\ (OpenOrNone(b) \/ Ended(b))))
                 => /\ Books(state') = Books(state)
                    /\ avg_cost_basis' = avg_cost_basis
            /\ (Ended(b) /\ OpenOrNone(a))
                 => Tracking(state', "SELL") = Tracking(state, "SELL")
            /\ (Ended(a) /\ OpenOrNone(b))
                 => Tracking(state', "BUY") = Tracking(state, "BUY") ]_vars
\* A reconciled BUY fill gave inventory, cost basis and a trade; then the
\* SELL order was rejected by the exchange and the status check untracked
\* it.
C12_Witness ==
  /\ Len(exOrders) = 2
  /\ exOrders[1].side = "BUY" /\ exOrders[1].status = "FILLED"
  /\ exOrders[2].side = "SELL" /\ exOrders[2].status = "REJECTED"
  /\ applied = <<1, 0>>
  /\ Untracked(state, "SELL")
  /\ state.current_position = exOrders[1].size
  /\ avg_cost_basis = Some(exOrders[1].price)
  /\ state.total_trades = 1
  /\ state.total_pnl = 0

\* The preconditions of the sole-best rule, on the state and book that
\* _update_orders runs with: the tracked order is priced at the best price
\* of its side, its size is the size of that level (within 0.01 share), and
\* the second-best price is more than one price improvement away.
SoleBestAsk ==
  /\ state.active_sell_order_id # 0
  /\ state.active_sell_order_price = book.best_ask
  /\ Abs(book.best_ask_size - state.active_sell_order_size) < SOLE_EPS
  /\ book.second_best_ask # 0
  /\ book.second_best_ask - state.active_sell_order_price
       > price_improvement_decimal(config)
SoleBestBid ==
  /\ state.active_buy_order_id # 0
  /\ state.active_buy_order_price = book.best_bid
  /\ Abs(book.best_bid_size - state.active_buy_order_size) < SOLE_EPS
  /\ book.second_best_bid # 0
  /\ state.active_buy_order_price - book.second_best_bid
       > price_improvement_decimal(config)
\* The submissions that the action being taken adds.
NewSubs == subs' \ subs
\* The action being taken leaves a new tracked order at the price.
ReplacedAt(side, price) ==
  /\ Tracking(state', side)[1] \notin {0, Tracking(state, side)[1]}
  /\ Tracking(state', side)[2] = price
\* The action being taken made the cancel call of a replacement, and what
\* followed is one of: the call raised and nothing changed; the old order
\* was untracked and no new order sized; a new order was submitted at the
\* price, and is tracked at it if the exchange accepted it.
ReplaceTriedAt(side, price) ==
  \/ /\ faults' = faults + 1
     /\ state' = state /\ exOrders' = exOrders /\ NewSubs = {}
  \/ /\ NewSubs = {}
     /\ Untracked(state', side)
     /\ (IF side = "BUY"
         THEN buy_replace_size(state', config, book.best_bid)
         ELSE sell_replace_size(state')) = 0
  \/ \E s \in NewSubs :
       /\ NewSubs = {s}
       /\ s.side = side /\ s.via = "replace" /\ s.price = price
       /\ IF s.outcome = "ok" THEN ReplacedAt(side, price)
                              ELSE Untracked(state', side)

\* C13: when _update_orders finds the tracked SELL order the sole best ask
\* with the second-best ask more than one price improvement above it, the
\* step replaces the order at second_best_ask - price_improvement; a sole
\* best BUY order is replaced at second_best_bid + price_improvement.
C13_SoleBestReplaced ==
  [][ /\ (UpdateSellOrder /\ SoleBestAsk)
           => ReplacedAt("SELL", book.second_best_ask
                                   - price_improvement_decimal(config))
      /\ (UpdateBuyOrder /\ SoleBestBid)
           => ReplacedAt("BUY", book.second_best_bid
                                  + price_improvement_decimal(config)) ]_vars
\* The example: the agent's 20 shares are the sole best ask at 0.59, the
\* second-best ask is 0.65, the improvement one cent: the target is 0.64.
C13_Example ==
  sell_replace_price(
    [state EXCEPT !.active_sell_order_id = 1,
                  !.active_sell_order_price = 59 * Cent,
                  !.active_sell_order_size = 20 * Share],
    [book EXCEPT !.best_ask = 59 * Cent, !.best_ask_size = 20 * Share,
                 !.second_best_ask = 65 * Cent],
    config) = 64 * Cent
\* C13 as it holds: the replacement is attempted at that price; the new
\* order is tracked at it when the exchange accepts the submission.
C13_SoleBestReplaceTried ==
  [][ /\ C13_Example
      /\ (UpdateSellOrder /\ SoleBestAsk)
           => ReplaceTriedAt("SELL", book.second_best_ask
                                       - price_improvement_decimal(config))
      /\ (UpdateBuyOrder /\ SoleBestBid)
           => ReplaceTriedAt("BUY", book.second_best_bid
                                      + price_improvement_decimal(config)) ]_vars
\* A step has replaced its SELL order, the sole best ask of the step's
\* book, by an order at second_best_ask - price_improvement, which the
\* exchange accepted and the agent tracks.
C13_Witness ==
  /\ pc = "cancel"
  /\ atStart.sell # 0
  /\ exOrders[atStart.sell].status = "CANCELLED"
  /\ exOrders[atStart.sell].price = book.best_ask
  /\ book.second_best_ask - book.best_ask > price_improvement_decimal(config)
  /\ \E s \in SellSubs :
       /\ s.via = "replace" /\ s.outcome = "ok"
       /\ s.price = book.second_best_ask - price_improvement_decimal(config)
       /\ state.active_sell_order_price = s.price
  /\ state.active_sell_order_id \notin {0, atStart.sell}

\* The order of a side that rested when the step began rests unreplaced at
\* the best price of the step's book when the step ends.
StillBest(side) ==
  /\ StepDone
  /\ atStart[IF side = "BUY" THEN "buy" ELSE "sell"] # 0
  /\ Tracking(state, side)[1] = atStart[IF side = "BUY" THEN "buy" ELSE "sell"]
  /\ Tracking(state, side)[2]
       = (IF side = "BUY" THEN book.best_bid ELSE book.best_ask)

\* C14: a step that begins with a resting order at the best price of its
\* side, whose target price has not moved, ends with that order topped up to
\* the amount available for the side: for a SELL order the tracked inventory
\* minus the safety buffer, as a placement sizes it; for a BUY order the
\* shares the available budget buys at the order's price.
SellAvailable == sell_order_size(unregister_order(state, "SELL"))
C14_RestingOrderToppedUp ==
  /\ (StillBest("SELL") /\ SellAvailable > state.active_sell_order_size)
       => state.active_sell_order_size = SellAvailable
  /\ (/\ StillBest("BUY")
      /\ available_budget(state, config, book.best_bid)
            \div state.active_buy_order_price > state.active_buy_order_size)
       => state.active_buy_order_size
            = available_budget(state, config, book.best_bid)
                \div state.active_buy_order_price

\* Another participant's ask is below the tracked SELL order's price, and
\* the tracked inventory minus the safety buffer is at least the minimum
\* order size.
NotBestAsk ==
  /\ state.active_sell_order_id # 0
  /\ state.active_sell_order_price > book.best_ask
  /\ state.current_position - SAFETY_BUFFER >= MinOrderSize(state)

\* C15: a step that begins with the resting SELL order above another
\* participant's ask, with a tracked inventory of at least the minimum order
\* size plus the buffer, ends with the old order cancelled and a tracked
\* SELL order at best_ask - price_improvement for the whole tracked
\* inventory minus the buffer.
C15_DisplacedSellReplaced ==
  (/\ StepDone
   /\ atStart.sell # 0
   /\ exOrders[atStart.sell].price > book.best_ask
   /\ state.current_position - SAFETY_BUFFER >= MinOrderSize(state))
    => /\ exOrders[atStart.sell].status = "CANCELLED"
       /\ state.active_sell_order_id \notin {0, atStart.sell}
       /\ state.active_sell_order_price
            = book.best_ask - price_improvement_decimal(config)
       /\ state.active_sell_order_size = state.current_position - SAFETY_BUFFER
\* C15 as it holds, stated of _update_orders: the replacement is called at
\* best_ask - price_improvement.  Either the cancel call raises and nothing
\* changes, or the old order is untracked (and cancelled, if it was open and
\* the call did what it answers for) and one SELL order is submitted at
\* that price for the tracked inventory minus the buffer, which is tracked
\* with that price and size if the exchange accepts it; no SELL order is
\* tracked otherwise.
C15_DisplacedSellReplaceTried ==
  [][ (UpdateSellOrder /\ NotBestAsk) =>
        LET old == state.active_sell_order_id
            target_price == book.best_ask - price_improvement_decimal(config)
        IN  \/ /\ faults' = faults + 1
               /\ state' = state /\ exOrders' = exOrders /\ NewSubs = {}
            \/ /\ (faults' = faults /\ exOrders[old].status = "OPEN")
                    => exOrders'[old].status = "CANCELLED"
               /\ \E s \in NewSubs :
                    /\ NewSubs = {s}
                    /\ s.side = "SELL" /\ s.via = "replace"
                    /\ s.price = target_price
                    /\ s.size = state.current_position - SAFETY_BUFFER
                    /\ IF s.outcome = "ok"
                       THEN /\ ReplacedAt("SELL", target_price)
                            /\ state'.active_sell_order_size = s.size
                       ELSE Untracked(state', "SELL") ]_vars
\* A step has cancelled its SELL order, which another participant's ask had
\* undercut, and tracks the new order at best_ask - price_improvement for
\* the tracked inventory minus the buffer.
C15_Witness ==
  /\ pc = "cancel"
  /\ atStart.sell # 0
  /\ exOrders[atStart.sell].status = "CANCELLED"
  /\ exOrders[atStart.sell].price > book.best_ask
  /\ state.active_sell_order_id \notin {0, atStart.sell}
  /\ state.active_sell_order_price
       = book.best_ask - price_improvement_decimal(config)
  /\ state.active_sell_order_size = state.current_position - SAFETY_BUFFER
  /\ \E s \in SellSubs : s.via = "replace" /\ s.outcome = "ok"

\* C16: a replacement is cancel, then create.  A new order is submitted
\* only once the cancel call has returned (the method is past it and the old
\* order is untracked); if the cancel call raised, nothing was submitted,
\* nothing was added on the exchange and the old order is tracked as
\* before; if the cancel call returned and the submit call failed, or no
\* new order was sized, no order of the side is tracked; an accepted new
\* order is the tracked one.
C16_CancelThenCreate ==
  /\ pc \in {"replace", "replace_raised", "replace_size", "replace_submit",
              "replace_returned"}
       => subs = {} /\ Len(exOrders) = 1
  /\ pc \in {"replace", "replace_raised"}
       => Tracking(state, ReplaceSide)
            = <<ReplaceOld, exOrders[ReplaceOld].price, exOrders[ReplaceOld].size>>
  /\ pc \in {"replace_size", "replace_submit", "replace_returned",
              "replace_failed"}
       => Untracked(state, ReplaceSide)
  /\ subs # {}
       => /\ pc \in {"replaced", "replace_failed"}
          /\ Cardinality(subs) = 1
          /\ \A s \in subs : s.side = ReplaceSide /\ s.via = "replace"
          /\ Tracking(state, ReplaceSide)[1] # ReplaceOld
          /\ faults = 0 => exOrders[ReplaceOld].status # "OPEN"
  /\ pc = "replaced"
       => /\ Len(exOrders) = 2
          /\ Tracking(state, ReplaceSide)[1] = 2
          /\ \A s \in subs : s.outcome = "ok"
  /\ pc = "replace_failed"
       => Len(exOrders) = 1 /\ \A s \in subs : s.outcome # "ok"
\* The cancel call cancelled the old order, the submit call failed, and no
\* order of the side is tracked.
C16_Witness ==
  /\ pc = "replace_failed"
  /\ exOrders[ReplaceOld].status = "CANCELLED"
  /\ \E s \in subs : s.outcome = "error"
  /\ Untracked(state, ReplaceSide)

\* C17: no price chasing.  A BUY order that rests at the best bid of the
\* step's book is not replaced by an order at a higher price, and a SELL
\* order that rests at the best ask is not replaced by one at a lower price.
C17_NoPriceChasing ==
  pc = "replaced" =>
    /\ (ReplaceSide = "BUY" /\ exOrders[ReplaceOld].price = book.best_bid)
         => state.active_buy_order_price <= exOrders[ReplaceOld].price
    /\ (ReplaceSide = "SELL" /\ exOrders[ReplaceOld].price = book.best_ask)
         => state.active_sell_order_price >= exOrders[ReplaceOld].price

\* Tracked inventories around the minimum order size.
NearMinPositions ==
  {1 * Share, MIN_ORDER_SIZE - SIZE_TICK, MIN_ORDER_SIZE,
   MIN_ORDER_SIZE + SAFETY_BUFFER, 6 * Share}

\* C18: every SELL order submitted, by placement or by replacement, has a
\* size of at least the market's minimum order size (the value the exchange
\* reported, else 5 shares), and is sized from a tracked inventory of at
\* least that minimum; a step that ends with a tracked inventory below the
\* minimum has submitted no SELL order; and in every reachable state both
\* the placement and the replacement, given an inventory near the minimum,
\* size either no order or one of at least the minimum.
C18_SellAtLeastMinSize ==
  /\ \A s \in SellSubs :
       s.size >= MinOrderSize(state) /\ s.pos >= MinOrderSize(state)
  /\ (StepDone /\ state.current_position < MinOrderSize(state))
       => SellSubs = {}
  /\ \A p \in NearMinPositions :
       LET st == unregister_order([state EXCEPT !.current_position = p], "SELL")
       IN  /\ sell_order_size(st) = 0 \/ sell_order_size(st) >= MinOrderSize(st)
           /\ sell_replace_size(st) = 0 \/ sell_replace_size(st) >= MinOrderSize(st)
           /\ p < MinOrderSize(st)
                => sell_order_size(st) = 0 /\ sell_replace_size(st) = 0
\* A step has run through the SELL placement with a tracked inventory above
\* 0 and below the minimum order size, and submitted no SELL order.
C18_Witness ==
  /\ StepDone
  /\ state.current_position > 0
  /\ state.current_position < MinOrderSize(state)
  /\ state.active_sell_order_id = 0
  /\ SellSubs = {}

\* C19: every BUY order submitted, by placement or by replacement, has a
\* size of at least the market's minimum order size; with an available
\* budget that is <= 0 or buys fewer shares than the minimum, no BUY order
\* is submitted.
C19_BuyAtLeastMinSize ==
  \A s \in BuySubs :
    /\ s.size >= MinOrderSize(state)
    /\ s.avail > 0
    /\ s.avail \div s.price >= MinOrderSize(state)

\* The call of _retry_operation has returned or raised.
RetryDone == pc \in {"retry_returned", "retry_raised"}
RetryFailed(i) == ~retry.calls[i].ok

\* What holds of a call of _retry_operation at every point of it.
RetryShape ==
  LET n == Len(retry.calls)
      w == Len(retry.slept)
  IN  /\ n <= retry.max_retries
      /\ \A i \in 1..n :
           retry.calls[i].ok =>
             /\ i = n
             /\ pc = "retry_returned"
             /\ retry.returned = retry.calls[i].value
      /\ pc = "retry_returned" => n >= 1 /\ retry.calls[n].ok
      /\ \A k \in 1..w :
           /\ retry.slept[k] = retry.retry_delay_seconds * 2 ^ (k - 1)
           /\ k < retry.max_retries
           /\ k <= n /\ RetryFailed(k)
      /\ pc = "retry_sleep" => w = n - 1
      /\ pc = "retry_call" /\ retry.attempt < retry.max_retries => w = n
      /\ pc = "retry_returned" => w = n - 1
      /\ pc = "retry_raised" => w = Max(0, retry.max_retries - 1)
      /\ pc = "retry_raised" =>
           /\ n = retry.max_retries
           /\ retry.raised = "PolymarketServiceError"
      /\ RetryDone =>
           (pc = "retry_raised" <=> \A i \in 1..n : RetryFailed(i))

\* C20: a call of _retry_operation ends (it returns or raises); it invokes
\* the operation at most max_retries times; a successful attempt is the last
\* one and its result is what is returned; the k-th wait lasts
\* retry_delay_seconds * 2^(k-1), follows the failed k-th attempt and
\* precedes the (k+1)-th, and no wait follows the last attempt; and the call
\* raises PolymarketServiceError exactly when every attempt failed.
C20_RetryTerminates == []RetryShape /\ <>RetryDone

\* reached: the third attempt succeeds after two failures and two waits, the
\* second twice as long as the first.
C20_Witness ==
  /\ pc = "retry_returned"
  /\ Len(retry.calls) = 3
  /\ RetryFailed(1) /\ RetryFailed(2)
  /\ retry.slept = <<retry.retry_delay_seconds, 2 * retry.retry_delay_seconds>>
  /\ retry.returned = "r2"

\* The roster of the manager and the outcomes with which an execution call
\* of a step raised.
Roster == DOMAIN mgr.traders
Failures == {"ExecutionError", "Exception"}
StepFailed(tr) == tr.outcome \in Failures

\* C21: a step in which an execution call raised, the typed execution error
\* or any other exception, ends by returning: nothing is propagated to the
\* gather, the agent stays in the roster, and its is_active and is_paused
\* flags are what they were, so that the next fan-out steps it again.
C21_StepNeverPropagates ==
  [][\A a \in AgentIds :
       TraderStep(a) /\ StepFailed(mgr'.traders[a]) =>
         /\ mgr'.traders[a].result = "returned"
         /\ mgr'.traders[a].is_active = mgr.traders[a].is_active
         /\ mgr'.traders[a].is_paused = mgr.traders[a].is_paused
         /\ StepsToStart(mgr'.traders[a]) = 1]_vars

\* reached: in the second tick a step ended by returning after a call of it
\* raised an exception other than the typed execution error.
C21_Witness ==
  /\ pc = "mgr_gather"
  /\ mgr.ticks = 2
  /\ \E a \in Roster :
       /\ mgr.traders[a].outcome = "Exception"
       /\ mgr.traders[a].result = "returned"
       /\ mgr.traders[a].is_active

\* Every step that the tick's fan-out started has ended.
AllStepsEnded ==
  \A a \in Roster :
    /\ mgr.traders[a].running = 0
    /\ mgr.traders[a].stepped > 0 => mgr.traders[a].result # "none"

\* C22: when the step of one agent has failed while the manager waits for
\* the tick's steps, the gather still returns with the step of every other
\* agent ended, and the loop goes on to the sleep that ends the tick.
C22_FailureDoesNotAbortOthers ==
  /\ (pc = "mgr_gather" /\ \E a \in Roster : StepFailed(mgr.traders[a]))
       ~> (pc = "mgr_status" /\ AllStepsEnded)
  /\ (pc = "mgr_status") ~> (pc = "mgr_sleep")

\* reached: the gather has returned; the step of one agent failed and the
\* step of the other agent ran to its end without a failure.
C22_Witness ==
  /\ pc = "mgr_status"
  /\ AllStepsEnded
  /\ \E a, b \in Roster :
       /\ StepFailed(mgr.traders[a])
       /\ mgr.traders[b].outcome = "ok"

\* C23: a tick starts at most one step for an agent, so an agent never has
\* two steps in progress, and the manager leaves the gather only when no
\* step is in progress: the risk check, the reconciliation and the fan-out
\* of the next tick see the agents as the steps of the previous tick left
\* them.
C23_OneStepPerAgentPerTick ==
  /\ \A a \in Roster :
       /\ mgr.traders[a].stepped <= 1
       /\ mgr.traders[a].running <= 1
  /\ pc # "mgr_gather" => \A a \in Roster : mgr.traders[a].running = 0

\* reached: in the second tick the manager waits in the gather while the
\* step of one agent has ended and the step of another is in progress.
C23_Witness ==
  /\ pc = "mgr_gather"
  /\ mgr.ticks = 2
  /\ \E a, b \in Roster :
       /\ mgr.traders[a].running = 1 /\ mgr.traders[a].stepped = 1
       /\ mgr.traders[b].running = 0 /\ mgr.traders[b].result = "returned"

\* C24: the roster changes only in the reconciliation of the run loop, when
\* no step of any agent is in progress; between the fan-out of a tick and
\* the end of all its steps no agent is added or removed.
C24_RosterChangesBetweenTicks ==
  [][DOMAIN mgr'.traders # DOMAIN mgr.traders =>
       /\ pc = "mgr_sync" /\ pc' = "mgr_fanout"
       /\ \A a \in Roster : mgr.traders[a].running = 0
       /\ \A a \in DOMAIN mgr'.traders : mgr'.traders[a].running = 0]_vars

\* reached: a reconciliation of the second tick has removed an agent that
\* tracked a resting order and kept or added another agent.
C24_Witness ==
  /\ pc = "mgr_fanout"
  /\ mgr.ticks = 2
  /\ mgr.removed # {}
  /\ Roster # {}
  /\ mgr.db_traders.answered

\* C25: the step of a paused agent returns at once: it makes no call (its
\* outcome is "skipped") and the agent's state and flags are what they
\* were; pausing and resuming leave the roster's id set alone; and the step
\* of an active agent that is not paused, a resumed one included, runs.
C25_PausedStepIsNoop ==
  [][/\ \A a \in AgentIds :
          TraderStep(a) =>
            IF mgr.traders[a].is_paused
            THEN /\ mgr'.traders[a].outcome = "skipped"
                 /\ mgr'.traders[a].state = mgr.traders[a].state
                 /\ mgr'.traders[a].is_paused
                 /\ mgr'.traders[a].is_active = mgr.traders[a].is_active
                 /\ DOMAIN mgr'.traders = DOMAIN mgr.traders
            ELSE mgr.traders[a].is_active =>
                   mgr'.traders[a].outcome \in StepOutcomes
     /\ PauseTrader \/ ResumeTrader =>
          /\ DOMAIN mgr'.traders = DOMAIN mgr.traders
          /\ \A a \in Roster :
               mgr'.traders[a].state = mgr.traders[a].state]_vars

\* reached: in the second tick the step of a paused agent that has
\* inventory and two resting orders was skipped.
C25_Witness ==
  /\ mgr.ticks = 2
  /\ \E a \in Roster :
       /\ mgr.traders[a].is_paused
       /\ mgr.traders[a].outcome = "skipped"
       /\ mgr.traders[a].state.current_position > 0
       /\ mgr.traders[a].state.active_sell_order_id # 0

\* The run coroutine has ended, after shutdown returned or raised.
RunEnded == pc \in {"mgr_done", "mgr_raised"}

\* C26: when the run has ended, shutdown included, a cancel has been issued
\* for every resting order that an agent tracked when it was stopped and
\* removed from the roster.
C26_RemovedOrdersCancelled ==
  RunEnded => mgr.removed \subseteq mgr.cancels

\* One of the two global limits is breached, measured as _monitor_risk
\* measures them.
RiskBreach ==
  \/ total_exposure(mgr.traders) > mgr.config.max_total_exposure * Share
  \/ total_pnl(mgr.traders) < mgr.config.max_total_pnl_loss * Dollar

\* C27: the risk check at the start of a tick ends the loop and goes to
\* shutdown, before any step of the tick is started, exactly when a limit
\* is breached and emergency shutdown is enabled; with emergency shutdown
\* disabled the loop goes on to the tick whether or not a limit is breached.
C27_RiskBreachEndsLoop ==
  [][MonitorRisk =>
       /\ RiskBreach /\ mgr.config.enable_emergency_shutdown =>
            /\ pc' = "mgr_shutdown"
            /\ mgr'.exit = "risk"
            /\ mgr'.traders = mgr.traders
            /\ \A a \in Roster : mgr.traders[a].stepped = 0
       /\ ~mgr.config.enable_emergency_shutdown => pc' = "mgr_sync"
       /\ ~RiskBreach => pc' = "mgr_sync"]_vars

\* reached: the loop ended at the risk check of the second tick, with the
\* exposure limit breached and no step in progress.
C27_Witness ==
  /\ pc = "mgr_shutdown"
  /\ mgr.exit = "risk"
  /\ mgr.ticks = 2
  /\ total_exposure(mgr.traders) > mgr.config.max_total_exposure * Share
  /\ \A a \in Roster : mgr.traders[a].running = 0

\* The sum over the roster of the agents' position values.
total_position_value ==
  LET RECURSIVE Sum(_)
      Sum(S) == IF S = {} THEN 0
                ELSE LET a == CHOOSE x \in S : TRUE
                     IN  position_value(mgr.traders[a].state) + Sum(S \ {a})
  IN  Sum(Roster)

\* C28: at the risk check the exposure that is compared with the cap is the
\* sum over the roster of |inventory x price|, a number of dollars.  (The
\* number that _monitor_risk compares counts n shares as n; a value of n
\* dollars is n * 100 * Cent * Share in the units of a position value.  The
\* P&L that it compares with the floor is the sum of the agents' total_pnl,
\* which is total_pnl above.)
C28_ExposureIsPositionValue ==
  pc = "mgr_risk" =>
    total_exposure(mgr.traders) * (100 * Cent) = total_position_value

\* C29: when shutdown has run with agents in the roster, it returned
\* without raising, is_running is false, every roster agent is inactive,
\* and a cancel was issued for every resting order that a roster agent
\* tracked.
C29_ShutdownCancelsAll ==
  RunEnded /\ Roster # {} =>
    /\ pc = "mgr_done"
    /\ mgr.raised = "None"
    /\ ~mgr.is_running
    /\ \A a \in Roster :
         /\ ~mgr.traders[a].is_active
         /\ TrackedOrders(a, mgr.traders[a]) \subseteq mgr.cancels

\* C30: after a reconciliation in which the store answered, the roster's
\* id set is the set of agents in the answer of load_all_traders (active
\* and paused agents), none of them with status "deleted", and every roster
\* agent is paused when its status in the store is "paused" and not paused
\* when it is "active".
C30_RosterMatchesStore ==
  pc = "mgr_fanout" /\ mgr.db_traders.answered =>
    /\ Roster = mgr.db_traders.rows
    /\ \A a \in Roster :
         /\ mgr.store[a] \in {"active", "paused"}
         /\ mgr.store[a] = "paused" => mgr.traders[a].is_paused
         /\ mgr.store[a] = "active" => ~mgr.traders[a].is_paused

\* reached: a reconciliation in which the store answered has added an agent
\* that is paused in the store, which is now paused in the roster, and has
\* removed an agent that tracked a resting order.
C30_Witness ==
  /\ pc = "mgr_fanout"
  /\ mgr.db_traders.answered
  /\ mgr.removed # {}
  /\ \E a \in Roster :
       /\ mgr.store[a] = "paused"
       /\ mgr.traders[a].is_paused
       /\ mgr.traders[a].state = NewTrader.state
       /\ mgr.traders[a].state.last_best_bid = 0

\* C31: a reconciliation never takes an agent that is active in the store
\* out of the roster, stops it or pauses it, whatever load_all_traders and
\* the status queries return: when the query fails or a row does not
\* resolve, the agents that were running keep running.
C31_StoreFailureKeepsAgents ==
  [][pc = "mgr_sync" /\ pc' = "mgr_fanout" =>
       \A a \in Roster :
         mgr.store[a] = "active" =>
           /\ a \in DOMAIN mgr'.traders
           /\ mgr'.traders[a].is_active
           /\ mgr'.traders[a].is_paused => mgr.traders[a].is_paused]_vars

\* C32: a step whose order book fetch fails, or whose book lacks a best bid
\* or a best ask, ends at the fetch: it sends no submit and no cancel (the
\* exchange's orders are untouched and the step's submissions stay empty), and
\* it leaves the tracked orders, the last-seen market state, the inventory,
\* the cost basis and the position-sync flag and counter as the order-status
\* reconciliation left them.
C32_NoBookStepIsFrame ==
  [][pc = "fetch" /\ pc' = "idle" =>
       /\ book' = NoBook
       /\ subs' = {} /\ subs = {}
       /\ exOrders' = exOrders
       /\ exPosition' = exPosition
       /\ state' = state
       /\ avg_cost_basis' = avg_cost_basis
       /\ position_synced' = position_synced
       /\ position_sync_counter' = position_sync_counter]_vars

\* A step has ended at the fetch on a book without asks while the agent
\* tracks a resting BUY order and remembers the earlier two-sided market.
C32_Witness ==
  /\ pc = "idle" /\ book = NoBook /\ steps > 0
  /\ market.asks = {}
  /\ state.active_buy_order_id # 0
  /\ state.last_best_ask # 0
  /\ state.active_buy_order_id \in OpenIds("BUY")

\* C34: a position sync whose fetch from the exchange failed leaves the
\* tracked inventory at the value it had before the fetch, and the step goes
\* on to the order updates.
C34_FailedFetchKeepsInventory ==
  [][pc = "update_position" /\ faults' = faults + 1 =>
       /\ state'.current_position = state.current_position
       /\ pc' = "update_buy"]_vars

\* C33: once a SELL submission of a step was rejected for insufficient
\* balance or allowance, the agent sizes and submits no further SELL order
\* before it has re-read its inventory from the exchange; the re-read is the
\* position sync of a later step, so the placement phase of the same step
\* sends no SELL order.
C33_ResyncBeforeNextSell ==
  [][(/\ pc = "place_sell"
      /\ \E s \in subs : s.side = "SELL" /\ s.outcome = "balance")
       => subs' = subs]_vars

\* C35: the rounding submit_limit applies never rounds up: for every order
\* sent, the rounded size is at most the requested size, and for a BUY order
\* rounded price times rounded size is at most requested price times size.
C35_RoundingNeverRoundsUp ==
  \A s \in subs :
    /\ RoundSize(s.size) <= s.size
    /\ s.side = "BUY" => RoundPrice(s.price) * RoundSize(s.size) <= s.price * s.size

\* C36: whatever the store answers while a fill is recorded (row saved,
\* insert or lookup failed, store unavailable), the status check that
\* observes an order FILLED applies the fill once: the order is no longer
\* tracked, the trade is counted, the tracked inventory moves by exactly the
\* filled sizes (up for BUY, down for SELL), and a SELL fill with a cost
\* basis adds (fill price - cost basis) x size to the P&L.
FillDelta(i) ==
  IF i = 0 \/ i \notin JustApplied THEN 0
  ELSE IF exOrders[i].side = "BUY" THEN exOrders[i].filled
  ELSE 0 - exOrders[i].filled
C36_StoreFailureKeepsFillPath ==
  [][ReconcileFills =>
        /\ \A i \in JustApplied :
             /\ applied'[i] = 1
             /\ state'.active_buy_order_id # i
             /\ state'.active_sell_order_id # i
        /\ state'.total_trades = state.total_trades + Cardinality(JustApplied)
        /\ state'.current_position
             = state.current_position + FillDelta(state.active_buy_order_id)
                                      + FillDelta(state.active_sell_order_id)
        /\ (JustApplied = {state.active_sell_order_id} /\ avg_cost_basis # NoneV)
             => state'.total_pnl
                  = state.total_pnl
                    + (state.active_sell_order_price - avg_cost_basis[1])
                        * exOrders[state.active_sell_order_id].filled]_vars

\* A status check has applied the fill of a SELL order while the store
\* failed to record it: the order is cleared and the P&L has moved.
C36_Witness ==
  /\ atStart.save_fill = "failed"
  /\ state.active_sell_order_id = 0
  /\ state.total_pnl # 0
  /\ \E i \in DOMAIN applied :
       applied[i] = 1 /\ exOrders[i].side = "SELL" /\ exOrders[i].status = "FILLED"

\* C37: once stop() has been called, run() starts no new tick (the tick
\* count no longer grows), and the tick in flight ends, the loop exits and
\* shutdown() is executed: it returns, or raises from its cancel loop.
ShutdownRan == pc \in {"mgr_done", "mgr_raised"}
C37_StopEndsLoop ==
  /\ [][~mgr.is_running => mgr'.ticks = mgr.ticks]_vars
  /\ (~mgr.is_running) ~> ShutdownRan

\* stop() was called during the second tick, and shutdown ran after it.
C37_Witness ==
  /\ ShutdownRan
  /\ mgr.exit = "stopped"
  /\ mgr.ticks = 2

\* C38: at any time at most one order of the agent is open on the exchange
\* on each side, whatever the cancel calls answered.
C38_OneOpenOrderPerSide ==
  /\ Cardinality(OpenIds("BUY")) <= 1
  /\ Cardinality(OpenIds("SELL")) <= 1

\* C39: a fill that a position sync has already brought into the tracked
\* inventory is not applied again when the status check later observes the
\* order FILLED: if the tracked inventory equalled the exchange's before
\* the check, it equals it after the check.
C39_SyncedFillNotReapplied ==
  [][(/\ ReconcileFills
      /\ JustApplied # {}
      /\ position_synced
      /\ state.current_position = exPosition)
       => state'.current_position = exPosition]_vars

\* C40: in a still book, without fills and with every call succeeding, the
\* agent's quotes stabilise: from some step on the set of its open orders
\* on the exchange no longer changes (no submit, no cancel, no reprice).
OpenOrders ==
  {[side |-> exOrders[i].side, price |-> exOrders[i].price, size |-> exOrders[i].size]
     : i \in OpenIds("BUY") \cup OpenIds("SELL")}
C40_QuotesStabilise ==
  <>[][OpenOrders' = OpenOrders]_vars

====
